---------------------------- MODULE Spec2Model ----------------------------
(***************************************************************************)
(* The biochar notebook (src/biochar/biochar.ipynb) as a state machine:    *)
(* its code cells run top to bottom, one action per cell, and the          *)
(* bootstrap loop runs one action per iteration.                           *)
(*                                                                         *)
(* Numbers.  The notebook computes in IEEE doubles.  Here every real v is  *)
(* the integer floor(v * Scale) (fixed point, two decimals): a ratio 0.09  *)
(* is 9, a half-life of 100 years is 10000, a percentile 2.5 is 250.       *)
(* np.exp and np.log are computed in that arithmetic (ExpFx, LnFx), never  *)
(* taken as the identity.                                                  *)
(*                                                                         *)
(* Scaling.  The literals 34 (index count and resample size) and 10000     *)
(* (bootstrap iterations) are far beyond exhaustive enumeration; NIdx and  *)
(* NumIter stand for them.  Everything the code derives from the literals  *)
(* is derived from NIdx and NumIter in the same way.                       *)
(***************************************************************************)
EXTENDS Integers, Sequences, FiniteSets

VARIABLES
    pc,        \* the cell about to run, "halted" after an exception, "done" at the end
    error,     \* the exception that stopped the run, "none" otherwise
    csv,       \* the rows of biochar.csv (the environment; never written)
    rng,       \* state of numpy's global generator (np.random)
    data,      \* data = pd.read_csv("biochar.csv")
    k,         \* k: first the iteration count, later the decay constant
    indices,   \* indices = np.arange(34)
    alpha,     \* alpha = np.zeros(k), then one intercept per iteration
    beta,      \* beta = np.zeros(k), then one slope per iteration
    i,         \* loop variable of the bootstrap loop
    samples,   \* samples of the current iteration
    ratio,     \* ratio = 0.09
    halflife,  \* halflife = predict(ratio, 2.5)
    fraction,  \* fraction = 0.9
    years,     \* years = -np.log(fraction) / k
    initial,   \* initial = 100
    t,         \* t = np.arange(...)
    biochar,   \* biochar = model(t, ...)
    call,      \* an interactive call of predict: its arguments, whether it
               \* came before k was rebound, and what it gave
    drawn,     \* history: the resample of every iteration so far
    written,   \* history: how often each slot of alpha/beta was assigned
    seed0,     \* history: the generator state the kernel started with
    prev,      \* history: what the previous kernel run ended with
    efficiency,      \* efficiency = 0.6
    feedstock_start, \* feedstock_start = initial / efficiency
    negligible,      \* negligible = 0.005
    feedstock_end,   \* feedstock_end = (initial * fraction) * negligible
    k_feedstock,     \* k_feedstock = -np.log(feedstock_end / feedstock_start) / years
    feedstock,       \* feedstock = model(t, feedstock_start, k_feedstock)
    NCS,             \* NCS = (biochar - feedstock)[years.astype(int)]
    catalog,   \* fire notebook: catalog.yaml and what its URLs serve (never written)
    fire,      \* fire notebook: the names its cells bind, and their values
    s3,        \* fire notebook: the objects written to the S3 bucket
    sheet,     \* buffer-pool notebook: the issuance table of arboc_issuance.xlsx
               \* (never written)
    pool       \* buffer-pool notebook: the names its cells bind, their values,
               \* and the tables it displays

vars == <<pc, error, csv, rng, data, k, indices, alpha, beta, i, samples,
          ratio, halflife, fraction, years, initial, t, biochar, call,
          drawn, written, seed0, prev, efficiency, feedstock_start,
          negligible, feedstock_end, k_feedstock, feedstock, NCS,
          catalog, fire, s3, sheet, pool>>

\* the names of the counterfactual section of the biochar notebook
storageVars == <<efficiency, feedstock_start, negligible, feedstock_end,
                 k_feedstock, feedstock, NCS>>

\* the state of the fire-analysis notebook (src/offset-project-fire)
fireVars == <<catalog, fire, s3>>

\* the state of the buffer-pool notebook (src/offset-project-fire)
poolVars == <<sheet, pool>>

\* the state of the biochar notebook, its position and error apart
biocharVars == <<csv, rng, data, k, indices, alpha, beta, i, samples, ratio,
                 halflife, fraction, years, initial, t, biochar, call, drawn,
                 written, seed0, prev, efficiency, feedstock_start, negligible,
                 feedstock_end, k_feedstock, feedstock, NCS>>

---------------------------------------------------------------------------
(* Bounds of the model *)

\* stands for the literal 34 of np.arange(34) and np.random.choice(indices, 34)
NIdx == 3
\* stands for the literal 10000 of k = 10000
NumIter == 3
\* the largest observation table read from biochar.csv
MaxRows == 4
\* the generator states the kernel may start in are 0..MaxSeed
MaxSeed == 8
\* the longest half-life (years) the decay formulas are evaluated for
MaxHalfLife == 50
\* the most fire points one sensor's file holds
MaxSensorRows == 1
\* the longest half-life (years) of the tables of one common half-life
MaxPeriodHalfLife == 8
\* the most rows the issuance sheet holds
MaxSheetRows == 3

---------------------------------------------------------------------------
(* Fixed-point arithmetic standing for float64 *)

Scale == 100
\* the internal resolution of ExpFx and the constant e at that resolution
Fine == 10000
EulerFine == 27183
\* number of Taylor terms of e^r, 0 <= r < 1
ExpTerms == 8
\* LnFx searches this range of results: ln 0.01 .. 12
LnLo == 0 - 461
LnHi == 1200

Unbound == "unbound"

\* the float values that are not numbers of the fixed-point range
PosInf == 2 ^ 30
NegInf == 0 - PosInf
NaN == PosInf + 1
IsFinite(v) == v \notin {NaN, PosInf, NegInf}

Min(a, b) == IF a <= b THEN a ELSE b
Max(a, b) == IF a >= b THEN a ELSE b

\* floor(a * b / c) for a >= 0, b >= 0, c > 0 without the product a * b
MulDiv(a, b, c) == (a \div c) * b + ((a % c) * b) \div c

RECURSIVE TaylorSum(_, _, _)
\* sum of the terms term, term*r/(n*Scale), ... up to ExpTerms terms
TaylorSum(term, r, n) ==
    IF n > ExpTerms \/ term = 0 THEN 0
    ELSE term + TaylorSum((term * r) \div (n * Scale), r, n + 1)

\* e^(r/Scale) at resolution Fine, 0 <= r < Scale
ExpFrac(r) == TaylorSum(Fine, r, 1)

RECURSIVE ExpInt(_)
\* e^q at resolution Fine for an integer q
ExpInt(q) ==
    IF q = 0 THEN Fine
    ELSE IF q > 0 THEN MulDiv(ExpInt(q - 1), EulerFine, Fine)
    ELSE MulDiv(ExpInt(q + 1), Fine, EulerFine)

\* e^(x/Scale) at resolution Scale
ExpCalc(x) ==
    MulDiv(ExpInt(x \div Scale), ExpFrac(x % Scale), Fine) \div (Fine \div Scale)

\* ExpCalc tabulated once over the arguments LnFx searches
ExpTable == [x \in LnLo..LnHi |-> ExpCalc(x)]

\* np.exp
ExpFx(x) == IF x \in DOMAIN ExpTable THEN ExpTable[x] ELSE ExpCalc(x)

RECURSIVE LnSearch(_, _, _)
\* the largest y in lo..hi with ExpFx(y) <= v (lo if none)
LnSearch(v, lo, hi) ==
    IF lo >= hi THEN lo
    ELSE LET mid == (lo + hi + 1) \div 2
         IN  IF ExpFx(mid) <= v THEN LnSearch(v, mid, hi)
             ELSE LnSearch(v, lo, mid - 1)

\* ln(v/Scale) at resolution Scale, v > 0
LnCalc(v) == LnSearch(v, LnLo, LnHi)

\* LnCalc tabulated once over 0.01 .. 100
LnTable == [v \in 1..(100 * Scale) |-> LnCalc(v)]

\* np.log: nan (and a RuntimeWarning, no exception) below 0, -inf at 0
LnFx(v) ==
    IF v < 0 THEN NaN
    ELSE IF v = 0 THEN NegInf
    ELSE IF v \in DOMAIN LnTable THEN LnTable[v] ELSE LnCalc(v)

RECURSIVE SumSeq(_)
SumSeq(s) == IF s = <<>> THEN 0 ELSE Head(s) + SumSeq(Tail(s))

RECURSIVE Insert(_, _)
Insert(x, s) ==
    IF s = <<>> THEN <<x>>
    ELSE IF x <= Head(s) THEN <<x>> \o s
    ELSE <<Head(s)>> \o Insert(x, Tail(s))

\* the sort left out: the values in their original order
SortAsc_Unsorted(s) == s

\* the sort reversed: the largest value first
RECURSIVE SortAsc_Descending(_)
SortAsc_Descending(s) ==
    IF s = <<>> THEN <<>>
    ELSE LET m == CHOOSE x \in {s[j] : j \in 1..Len(s)} :
                     \A j \in 1..Len(s) : s[j] <= x
             at == CHOOSE j \in 1..Len(s) : s[j] = m
         IN  <<m>> \o SortAsc_Descending([j \in 1..(Len(s) - 1) |->
                                              IF j < at THEN s[j] ELSE s[j + 1]])

RECURSIVE SortAsc(_)
\* the values of s in ascending order
SortAsc(s) == IF s = <<>> THEN <<>> ELSE Insert(Head(s), SortAsc(Tail(s)))

---------------------------------------------------------------------------
(* The environment: biochar.csv and numpy's global generator *)

\* half-lives (years, fixed point) the rows of the table may carry
HalfLives == {10 * Scale, 100 * Scale}
\* O:C ratio of the first row of the table (fixed point): 0.0 or 0.1
Offsets == {0, 10}

\* row j (1-based) has ratio off + 0.1*(j-1); the half-lives are free
GridTables ==
    UNION { { [j \in 1..n |-> [ratio |-> off + 10 * (j - 1), halflife |-> h[j]]]
              : h \in [1..n -> HalfLives], off \in Offsets }
            : n \in 0..MaxRows }

\* an exactly log-linear table: (0.1, 100), (0.2, 10), (0.3, 1), (0.4, 0.1)
Noiseless ==
    <<[ratio |-> 10, halflife |-> 100 * Scale],
      [ratio |-> 20, halflife |-> 10 * Scale],
      [ratio |-> 30, halflife |-> Scale],
      [ratio |-> 40, halflife |-> Scale \div 10]>>

\* the files biochar.csv may be
Tables == GridTables \cup {Noiseless}

\* tables of NIdx rows that all carry the same half-life, 5 years up to
\* MaxPeriodHalfLife years in steps of a hundredth: the predicted half-life,
\* and with it the permanence period, follows that half-life
PeriodTables ==
    { [j \in 1..NIdx |-> [ratio |-> 10 * (j - 1), halflife |-> h]]
      : h \in (5 * Scale)..(MaxPeriodHalfLife * Scale) }

\* half-lives no observation should carry: 0 and -1 year
BadHalfLives == {0, 0 - Scale}

\* tables of the same shape with a half-life <= 0 in at least one row
BadTables ==
    UNION { { [j \in 1..n |-> [ratio |-> off + 10 * (j - 1), halflife |-> h[j]]]
              : h \in {g \in [1..n -> HalfLives \cup BadHalfLives] :
                          \E j \in 1..n : g[j] \in BadHalfLives},
                off \in Offsets }
            : n \in 1..MaxRows }

\* the generator: a linear congruential generator of full period stands for
\* numpy's Mersenne Twister; a draw below m outputs the second digit of the
\* state in base m and steps the state
RngMod == NIdx ^ (NIdx + 1)
RngMul == NIdx + 1
Seeds == 0..MaxSeed
RngOut(g, m) == (g \div m) % m
RngStep(g) == (RngMul * g + 1) % RngMod

RECURSIVE RngAdvance(_, _)
\* the generator state after n draws from state g
RngAdvance(g, n) == IF n = 0 THEN g ELSE RngAdvance(RngStep(g), n - 1)

\* np.random.choice(a, size): size draws with replacement from the
\* sequence a, each the element at the index the generator outputs
Choice(g, a, size) ==
    [j \in 1..size |-> a[RngOut(RngAdvance(g, j - 1), Len(a)) + 1]]

\* np.arange(n) as a sequence: 0, 1, ..., n-1
Arange(n) == [j \in 1..n |-> j - 1]
\* np.zeros(n)
Zeros(n) == [j \in 1..n |-> 0]

---------------------------------------------------------------------------
(* One bootstrap iteration: label lookup, add_constant, OLS *)

\* data.halflife[samples] / data.ratio[samples]: label-based lookup; a
\* label that is not in the index of the table raises KeyError
LabelsMissing(tbl, smp) == \E j \in 1..Len(smp) : smp[j] >= Len(tbl)
Lookup(tbl, smp, col) ==
    [j \in 1..Len(smp) |->
        IF col = "ratio" THEN tbl[smp[j] + 1].ratio ELSE tbl[smp[j] + 1].halflife]

\* np.log applied element by element
LogSeq(s) == [j \in 1..Len(s) |-> LnFx(s[j])]

\* sm.add_constant(x, prepend=False) with has_constant='skip': a column
\* that is already a non-zero constant means no constant column is added
IsNonzeroConst(x) ==
    /\ \A j \in 1..Len(x) : x[j] = x[1]
    /\ \E j \in 1..Len(x) : x[j] # 0
ConstSkipped(x) == Len(x) > 0 /\ IsNonzeroConst(x)

\* sum of the products of two sequences of the same length
RECURSIVE Dot(_, _)
Dot(x, y) == IF x = <<>> THEN 0 ELSE Head(x) * Head(y) + Dot(Tail(x), Tail(y))

\* sm.OLS(y, [x, 1]).fit().params: <<slope, intercept>> (prepend=False puts
\* the constant last).  Full rank: the normal equations.  Rank deficient
\* (every x is 0): the pseudo-inverse gives slope 0 and the mean of y.
OLSFinite(y, x) ==
    LET n == Len(x)
        sx == SumSeq(x)
        sy == SumSeq(y)
        d == n * Dot(x, x) - sx * sx
        slope == IF d = 0 THEN 0
                 ELSE ((n * Dot(x, y) - sx * sy) * Scale) \div d
    IN  <<slope, (sy * Scale - slope * sx) \div (n * Scale)>>

Sign(v) == IF v > 0 THEN 1 ELSE IF v < 0 THEN 0 - 1 ELSE 0

\* the IEEE sum of w[j] * y[j] when some y[j] is not finite: nan when a nan
\* enters, when an infinity meets the weight 0, or when infinities of both
\* signs are added; the infinity otherwise
InfSum(w, y) ==
    LET bad == {j \in 1..Len(y) : ~IsFinite(y[j])}
        signs == {Sign(w[j]) * Sign(y[j]) : j \in bad}
    IN  IF \E j \in bad : y[j] = NaN \/ w[j] = 0 THEN NaN
        ELSE IF signs = {1} THEN PosInf
        ELSE IF signs = {0 - 1} THEN NegInf
        ELSE NaN

\* params = pinv(exog) @ endog with a -inf or nan in endog: the weights
\* pinv gives the observations (up to the positive factor 1/d) and the sums
\* they enter; the fit raises nothing (missing='none' checks nothing)
OLSNonFinite(y, x) ==
    LET n == Len(x)
        sx == SumSeq(x)
        d == n * Dot(x, x) - sx * sx
        ws == [j \in 1..n |-> IF d = 0 THEN 0 ELSE n * x[j] - sx]
        wi == [j \in 1..n |-> IF d = 0 THEN 1 ELSE Dot(x, x) - x[j] * sx]
    IN  <<InfSum(ws, y), InfSum(wi, y)>>

OLSParams(y, x) ==
    IF \A j \in 1..Len(y) : IsFinite(y[j]) THEN OLSFinite(y, x)
    ELSE OLSNonFinite(y, x)

---------------------------------------------------------------------------
(* predict *)

NoValue == <<>>
Returned(v) == [raised |-> "none", ret |-> <<v>>]
Raised(e) == [raised |-> e, ret |-> NoValue]

\* intercept and slope exchanged: np.exp(beta + alpha * ratio)
Dist_Swapped(a, b, r) == [j \in 1..Len(a) |-> ExpFx(b[j] + (a[j] * r) \div Scale)]

\* np.exp left out: the distribution stays in log space
Dist_NoExp(a, b, r) == [j \in 1..Len(a) |-> a[j] + (b[j] * r) \div Scale]

\* np.exp(alpha + beta * ratio), element by element
Dist(a, b, r) == [j \in 1..Len(a) |-> ExpFx(a[j] + (b[j] * r) \div Scale)]

\* no range check: the virtual index is clipped to the data instead
Percentile_Unchecked(d, p) ==
    LET s == SortAsc(d)
        q == Max(0, Min(p, 100 * Scale))
        lo == (q * (Len(s) - 1)) \div (100 * Scale)
    IN  Returned(s[lo + 1])

\* the exception np.percentile raises for a percentile outside [0, 100]:
\* ValueError("Percentiles must be in the range [0, 100]")
PercentileRangeError == "ValueError: Percentiles must be in the range [0, 100]"

\* np.percentile(d, [p])[0]: p outside [0, 100] raises ValueError
\* ("Percentiles must be in the range [0, 100]"); otherwise the value at
\* the virtual index p/100 * (n-1) of the sorted data, interpolated
\* linearly between the two neighbouring order statistics
Percentile(d, p) ==
    IF p < 0 \/ p > 100 * Scale THEN Raised(PercentileRangeError)
    ELSE LET s == SortAsc(d)
             n == Len(s)
             num == p * (n - 1)
             den == 100 * Scale
             lo == num \div den
             hi == Min(lo + 1, n - 1)
             lower == s[lo + 1]
             upper == s[hi + 1]
         IN  Returned(lower + MulDiv(upper - lower, num % den, den))

\* def predict(ratio, prctile): reads the globals alpha and beta
predict(r, prctile) == Percentile(Dist(alpha, beta, r), prctile)

\* def model(t, initial, k): initial * np.exp(-k * t), with k = num/den
model(tt, init, kk) == MulDiv(init, ExpFx(0 - ((kk.num * tt) \div kk.den)), Scale)

\* e^(x/Scale) at resolution Fine, x >= 0
ExpGrowthFine(x) == MulDiv(ExpInt(x \div Scale), ExpFrac(x % Scale), Fine)
\* e^(x/Scale) at resolution Fine, x <= 0: the reciprocal of e^(-x/Scale)
ExpDecayFine(x) == (Fine * Fine) \div ExpGrowthFine(0 - x)
\* ln(q/Fine) at resolution Scale, for a quotient q held at resolution Fine
LnFine(q) == LnFx(q) - LnFx(Fine)

\* model with the factor np.exp(-k * t) kept at resolution Fine: the curves
\* of the counterfactual section fall below a hundredth of their start, where
\* a factor at resolution Scale is 0
modelFine(tt, init, kk) ==
    MulDiv(init, ExpDecayFine(0 - ((kk.num * tt) \div kk.den)), Fine)

---------------------------------------------------------------------------
(* The cells *)

\* the fire notebook's side while another notebook runs: nothing read,
\* nothing bound, nothing written
NoCatalog == <<>>
FreshNames ==
    [names |-> {}, write_to_s3 |-> Unbound, gdf |-> Unbound,
     native_crs |-> Unbound, project |-> Unbound, merged_gdf |-> Unbound,
     tolerance |-> Unbound, full_res |-> Unbound, burned_gdf |-> Unbound,
     burned_project |-> Unbound, project_area |-> Unbound,
     burned_project_area |-> Unbound, percent |-> Unbound]
NoObjects == {}

\* the buffer-pool notebook's side while another notebook runs
NoSheet == <<>>
FreshPool ==
    [names |-> {}, df |-> Unbound, forest_df |-> Unbound, n_projects |-> Unbound,
     proj_id |-> Unbound, total_credits |-> Unbound, perc_credits |-> Unbound,
     sorted_credits |-> Unbound, proj_loc |-> Unbound, shown |-> <<>>,
     proj_credits |-> Unbound, proj_frac |-> Unbound]

\* a kernel about to run the first cell, beside a file from the set files
FreshKernel(files) ==
    /\ pc = "setup"
    /\ error = "none"
    /\ csv \in files
    /\ rng = 0
    /\ seed0 = 0
    /\ data = Unbound
    /\ k = Unbound
    /\ indices = Unbound
    /\ alpha = Unbound
    /\ beta = Unbound
    /\ i = Unbound
    /\ samples = Unbound
    /\ ratio = Unbound
    /\ halflife = Unbound
    /\ fraction = Unbound
    /\ years = Unbound
    /\ initial = Unbound
    /\ t = Unbound
    /\ biochar = Unbound
    /\ call = [made |-> FALSE]
    /\ drawn = <<>>
    /\ written = <<>>
    /\ prev = [ran |-> FALSE]
    /\ efficiency = Unbound
    /\ feedstock_start = Unbound
    /\ negligible = Unbound
    /\ feedstock_end = Unbound
    /\ k_feedstock = Unbound
    /\ feedstock = Unbound
    /\ NCS = Unbound
    /\ catalog = NoCatalog
    /\ fire = FreshNames
    /\ s3 = NoObjects
    /\ sheet = NoSheet
    /\ pool = FreshPool

Init == FreshKernel(Tables)

\* import numpy as np ...: the global generator is seeded from OS entropy
CellSetup ==
    /\ pc = "setup"
    /\ \E s \in Seeds : rng' = s /\ seed0' = s
    /\ pc' = "basic"
    /\ UNCHANGED <<error, csv, data, k, indices, alpha, beta, i, samples, ratio,
                   halflife, fraction, years, initial, t, biochar, call, drawn,
                   written, prev>>
    /\ UNCHANGED storageVars
    /\ UNCHANGED fireVars
    /\ UNCHANGED poolVars

\* t = np.arange(1000); biochar = model(t, 12, 0.003)
CellBasic ==
    /\ pc = "basic"
    /\ t' = [start |-> 0, stop |-> 1000 * Scale]
    /\ biochar' = [initial |-> 12 * Scale, k |-> [num |-> 3, den |-> 1000], t |-> t']
    /\ pc' = "load"
    /\ UNCHANGED <<error, csv, rng, data, k, indices, alpha, beta, i, samples,
                   ratio, halflife, fraction, years, initial, call, drawn,
                   written, seed0, prev>>
    /\ UNCHANGED storageVars
    /\ UNCHANGED fireVars
    /\ UNCHANGED poolVars

\* data = pd.read_csv("biochar.csv")
CellLoad ==
    /\ pc = "load"
    /\ data' = csv
    /\ pc' = "bootinit"
    /\ UNCHANGED <<error, csv, rng, k, indices, alpha, beta, i, samples, ratio,
                   halflife, fraction, years, initial, t, biochar, call, drawn,
                   written, seed0, prev>>
    /\ UNCHANGED storageVars
    /\ UNCHANGED fireVars
    /\ UNCHANGED poolVars

\* the literal of "k = 10000"
BootstrapCount == 10000

\* k = n; indices = np.arange(34); alpha = np.zeros(k); beta = np.zeros(k)
BootInit(n) ==
    /\ pc = "bootinit"
    /\ k' = n
    /\ indices' = Arange(NIdx)
    /\ alpha' = Zeros(k')
    /\ beta' = Zeros(k')
    /\ i' = 0
    /\ written' = Zeros(k')
    /\ pc' = "loop"
    /\ UNCHANGED <<error, csv, rng, data, samples, ratio, halflife, fraction,
                   years, initial, t, biochar, call, drawn, seed0, prev>>
    /\ UNCHANGED storageVars
    /\ UNCHANGED fireVars
    /\ UNCHANGED poolVars

\* the cell with the iteration count scaled down to NumIter
CellBootInit == BootInit(NumIter)

\* the cell as written: k = 10000
CellBootInitFull == BootInit(BootstrapCount)

\* a generator made afresh from OS entropy at every call
DrawSamples_Reseeded ==
    \E s \in Seeds :
        /\ samples' = Choice(s, indices, NIdx)
        /\ rng' = RngAdvance(s, NIdx)

\* samples = np.random.choice(indices, 34): the resample, and the generator
\* moved on by as many draws
DrawSamples ==
    /\ samples' = Choice(rng, indices, NIdx)
    /\ rng' = RngAdvance(rng, NIdx)

\* the intercept read from the slope's position: alpha[i] = res.params[0]
InterceptOf_Slope(params) == params[1]

\* alpha[i] = res.params[1]; beta[i] = res.params[0]
InterceptOf(params) == params[2]
SlopeOf(params) == params[1]

\* the slot of alpha and beta that iteration number it (0-based) assigns
SlotOf(it) == it + 1

\* One pass through the body of "for i in range(k)".  The model's i is the
\* number of the pass about to run; after the last pass it equals k.
BootstrapIter ==
    /\ pc = "loop"
    /\ i < k
    /\ DrawSamples
    /\ drawn' = Append(drawn, samples')
    /\ IF LabelsMissing(data, samples')
       THEN /\ error' = "KeyError"
            /\ pc' = "halted"
            /\ UNCHANGED <<alpha, beta, i, written>>
       ELSE LET x == Lookup(data, samples', "ratio")
                y == LogSeq(Lookup(data, samples', "halflife"))
            IN  IF ConstSkipped(x)
                THEN \* params has one entry: res.params[1] is out of bounds
                     /\ error' = "IndexError"
                     /\ pc' = "halted"
                     /\ UNCHANGED <<alpha, beta, i, written>>
                ELSE LET params == OLSParams(y, x)
                     IN  /\ alpha' = [alpha EXCEPT ![SlotOf(i)] = InterceptOf(params)]
                         /\ beta' = [beta EXCEPT ![SlotOf(i)] = SlopeOf(params)]
                         /\ written' = [written EXCEPT ![SlotOf(i)] = @ + 1]
                         /\ i' = i + 1
                         /\ pc' = IF i + 1 = k THEN "predictdef" ELSE "loop"
                         /\ error' = error
    /\ UNCHANGED <<csv, data, k, indices, ratio, halflife, fraction, years,
                   initial, t, biochar, call, seed0, prev>>
    /\ UNCHANGED storageVars
    /\ UNCHANGED fireVars
    /\ UNCHANGED poolVars

\* def predict(ratio, prctile): ...
CellPredictDef ==
    /\ pc = "predictdef"
    /\ pc' = "eval"
    /\ UNCHANGED <<error, csv, rng, data, k, indices, alpha, beta, i, samples,
                   ratio, halflife, fraction, years, initial, t, biochar, call,
                   drawn, written, seed0, prev>>
    /\ UNCHANGED storageVars
    /\ UNCHANGED fireVars
    /\ UNCHANGED poolVars

\* ratio = 0.09; halflife = predict(ratio, 2.5)
CellEval ==
    /\ pc = "eval"
    /\ ratio' = 9
    /\ halflife' = predict(ratio', 250).ret[1]
    /\ pc' = "decay"
    /\ UNCHANGED <<error, csv, rng, data, k, indices, alpha, beta, i, samples,
                   fraction, years, initial, t, biochar, call, drawn, written,
                   seed0, prev>>
    /\ UNCHANGED storageVars
    /\ UNCHANGED fireVars
    /\ UNCHANGED poolVars

\* the decimal logarithm taken for the natural one: np.log10(2) / halflife
DecayConstant_Log10(h) == [num |-> (LnFx(2 * Scale) * Scale) \div LnFx(10 * Scale), den |-> h]

\* np.log(2) / h: the quotient is kept as numerator and denominator
DecayConstant(h) == [num |-> LnFx(2 * Scale), den |-> h]

\* the sign left out: np.log(f) / k
YearsFor_Unnegated(f, kk) == (LnFx(f) * kk.den) \div kk.num

\* -np.log(f) / k
YearsFor(f, kk) == ((0 - LnFx(f)) * kk.den) \div kk.num

\* k = np.log(2) / halflife
CellDecay ==
    /\ pc = "decay"
    /\ k' = DecayConstant(halflife)
    /\ pc' = "years"
    /\ UNCHANGED <<error, csv, rng, data, indices, alpha, beta, i, samples, ratio,
                   halflife, fraction, years, initial, t, biochar, call, drawn,
                   written, seed0, prev>>
    /\ UNCHANGED storageVars
    /\ UNCHANGED fireVars
    /\ UNCHANGED poolVars

\* fraction = 0.9; years = -np.log(fraction) / k
CellYears ==
    /\ pc = "years"
    /\ fraction' = 90
    /\ years' = YearsFor(fraction', k)
    /\ pc' = "curve"
    /\ UNCHANGED <<error, csv, rng, data, k, indices, alpha, beta, i, samples,
                   ratio, halflife, initial, t, biochar, call, drawn, written,
                   seed0, prev>>
    /\ UNCHANGED storageVars
    /\ UNCHANGED fireVars
    /\ UNCHANGED poolVars

\* the cell also re-creates the result arrays: alpha = np.zeros(...), beta = ...
CellCurve_ResetsFit ==
    /\ pc = "curve"
    /\ initial' = 100 * Scale
    /\ t' = [start |-> 0, stop |-> 20000 * Scale]
    /\ biochar' = [initial |-> initial', k |-> k, t |-> t']
    /\ alpha' = Zeros(Len(alpha))
    /\ beta' = Zeros(Len(beta))
    /\ pc' = "counterfactual"
    /\ UNCHANGED <<error, csv, rng, data, k, indices, i, samples,
                   ratio, halflife, fraction, years, call, drawn, written, seed0,
                   prev>>
    /\ UNCHANGED storageVars
    /\ UNCHANGED fireVars
    /\ UNCHANGED poolVars

\* initial = 100; t = np.arange(0, 20000); biochar = model(t, initial, k)
CellCurve ==
    /\ pc = "curve"
    /\ initial' = 100 * Scale
    /\ t' = [start |-> 0, stop |-> 20000 * Scale]
    /\ biochar' = [initial |-> initial', k |-> k, t |-> t']
    /\ pc' = "counterfactual"
    /\ UNCHANGED <<error, csv, rng, data, k, indices, alpha, beta, i, samples,
                   ratio, halflife, fraction, years, call, drawn, written, seed0,
                   prev>>
    /\ UNCHANGED storageVars
    /\ UNCHANGED fireVars
    /\ UNCHANGED poolVars

\* efficiency = 0.6; feedstock_start = initial / efficiency
CellEfficiency ==
    /\ pc = "counterfactual"
    /\ efficiency' = 60
    /\ feedstock_start' = MulDiv(initial, Scale, efficiency')
    /\ pc' = "negligible"
    /\ UNCHANGED <<error, csv, rng, data, k, indices, alpha, beta, i, samples,
                   ratio, halflife, fraction, years, initial, t, biochar, call,
                   drawn, written, seed0, prev>>
    /\ UNCHANGED <<negligible, feedstock_end, k_feedstock, feedstock, NCS>>
    /\ UNCHANGED fireVars
    /\ UNCHANGED poolVars

\* the literal of "negligible = 0.005", at resolution Fine
NegligibleFine == 50

\* (initial * fraction) * negligible, negligible at resolution Fine
FeedstockEnd(init, f, negl) == MulDiv(MulDiv(init, f, Scale), negl, Fine)

\* negligible = 0.005; feedstock_end = (initial * fraction) * negligible
CellNegligible ==
    /\ pc = "negligible"
    /\ negligible' = NegligibleFine
    /\ feedstock_end' = FeedstockEnd(initial, fraction, negligible')
    /\ pc' = "kfeedstock"
    /\ UNCHANGED <<error, csv, rng, data, k, indices, alpha, beta, i, samples,
                   ratio, halflife, fraction, years, initial, t, biochar, call,
                   drawn, written, seed0, prev>>
    /\ UNCHANGED <<efficiency, feedstock_start, k_feedstock, feedstock, NCS>>
    /\ UNCHANGED fireVars
    /\ UNCHANGED poolVars

\* the quotient taken the other way round: feedstock_start / feedstock_end
FeedstockDecayConstant_Inverted(fend, fstart, yy) ==
    [num |-> 0 - LnFine(MulDiv(fstart, Fine, fend)), den |-> yy]

\* -np.log(fend / fstart) / yy: the quotient is held at resolution Fine, the
\* decay constant as numerator and denominator
FeedstockDecayConstant(fend, fstart, yy) ==
    [num |-> 0 - LnFine(MulDiv(fend, Fine, fstart)), den |-> yy]

\* k_feedstock = -np.log(feedstock_end / feedstock_start) / years
CellKFeedstock ==
    /\ pc = "kfeedstock"
    /\ k_feedstock' = FeedstockDecayConstant(feedstock_end, feedstock_start, years)
    /\ pc' = "period"
    /\ UNCHANGED <<error, csv, rng, data, k, indices, alpha, beta, i, samples,
                   ratio, halflife, fraction, years, initial, t, biochar, call,
                   drawn, written, seed0, prev>>
    /\ UNCHANGED <<efficiency, feedstock_start, negligible, feedstock_end,
                   feedstock, NCS>>
    /\ UNCHANGED fireVars
    /\ UNCHANGED poolVars

\* t = np.arange(0, years); biochar = model(t, initial, k);
\* feedstock = model(t, feedstock_start, k_feedstock); the plot
CellPeriod ==
    /\ pc = "period"
    /\ t' = [start |-> 0, stop |-> years]
    /\ biochar' = [initial |-> initial, k |-> k, t |-> t']
    /\ feedstock' = [initial |-> feedstock_start, k |-> k_feedstock, t |-> t']
    /\ pc' = "ncs"
    /\ UNCHANGED <<error, csv, rng, data, k, indices, alpha, beta, i, samples,
                   ratio, halflife, fraction, years, initial, call, drawn,
                   written, seed0, prev>>
    /\ UNCHANGED <<efficiency, feedstock_start, negligible, feedstock_end,
                   k_feedstock, NCS>>
    /\ UNCHANGED fireVars
    /\ UNCHANGED poolVars

\* len(np.arange(start, stop)): the integers start, start + 1, ... below stop
ArangeLen(a) ==
    IF a.stop <= a.start THEN 0 ELSE (a.stop - a.start + Scale - 1) \div Scale

\* element j (0-based) of np.arange(start, stop)
ArangeAt(a, j) == a.start + j * Scale

\* element j (0-based) of the array model(t, initial, k)
CurveAt(curve, j) == modelFine(ArangeAt(curve.t, j), curve.initial, curve.k)

\* years.astype(int) - 1: the last index of an array of whole-year length
YearIndex_Last(yy) == yy \div Scale - 1

\* years.astype(int): the fraction cut off
YearIndex(yy) == yy \div Scale

\* NCS = (biochar - feedstock)[years.astype(int)]; print(...): an index
\* beyond the last element raises IndexError
CellNCS ==
    /\ pc = "ncs"
    /\ IF YearIndex(years) >= ArangeLen(biochar.t)
       THEN /\ error' = "IndexError"
            /\ pc' = "halted"
            /\ NCS' = NCS
       ELSE /\ NCS' = CurveAt(biochar, YearIndex(years))
                         - CurveAt(feedstock, YearIndex(years))
            /\ error' = error
            /\ pc' = "summary"
    /\ UNCHANGED <<csv, rng, data, k, indices, alpha, beta, i, samples,
                   ratio, halflife, fraction, years, initial, t, biochar, call,
                   drawn, written, seed0, prev>>
    /\ UNCHANGED <<efficiency, feedstock_start, negligible, feedstock_end,
                   k_feedstock, feedstock>>
    /\ UNCHANGED fireVars
    /\ UNCHANGED poolVars

\* print("summary") ...: years, efficiency, negligible, k_feedstock printed
CellSummary ==
    /\ pc = "summary"
    /\ pc' = "done"
    /\ UNCHANGED <<error, csv, rng, data, k, indices, alpha, beta, i, samples,
                   ratio, halflife, fraction, years, initial, t, biochar, call,
                   drawn, written, seed0, prev>>
    /\ UNCHANGED storageVars
    /\ UNCHANGED fireVars
    /\ UNCHANGED poolVars

\* the cells of the counterfactual section
StorageCells ==
    \/ CellEfficiency
    \/ CellNegligible
    \/ CellKFeedstock
    \/ CellPeriod
    \/ CellNCS
    \/ CellSummary

\* the cells at which predict is defined
PostDef == {"eval", "decay", "years", "curve", "counterfactual"}

\* ratios and percentiles (fixed point) of the interactive calls of predict
ProbeRatios == {0, 25}
ProbePcts == {0 - 1, 0, 250, 5000, 100 * Scale, 100 * Scale + 1}

\* a call predict(r, p) made between two cells, once predict is defined
CallPredict ==
    /\ pc \in PostDef
    /\ ~call.made
    /\ \E r \in ProbeRatios, p \in ProbePcts :
          call' = [made |-> TRUE, ratio |-> r, prctile |-> p,
                   early |-> (pc \in {"eval", "decay"}),
                   result |-> predict(r, p)]
    /\ UNCHANGED <<pc, error, csv, rng, data, k, indices, alpha, beta, i, samples,
                   ratio, halflife, fraction, years, initial, t, biochar, drawn,
                   written, seed0, prev>>
    /\ UNCHANGED storageVars
    /\ UNCHANGED fireVars
    /\ UNCHANGED poolVars

\* half-lives (half years up to MaxHalfLife years), initial masses and
\* remaining fractions of the decay formulas evaluated after the run
ProbeHalfLives == {j * (Scale \div 2) : j \in 1..(2 * MaxHalfLife)}
ProbeInitials == {Scale, 100 * Scale}
ProbeFractions == {1, 90, Scale}

\* the decay formulas of the notebook evaluated after the run for a half-life
\* h, an initial mass and a fraction: k = np.log(2) / h; model(h, initial, k);
\* years = -np.log(fraction) / k; model(years, initial, k)
CallModel ==
    /\ pc = "counterfactual"
    /\ ~call.made
    /\ \E h \in ProbeHalfLives, init \in ProbeInitials, f \in ProbeFractions :
          LET kk == DecayConstant(h)
              yy == YearsFor(f, kk)
          IN  call' = [made |-> TRUE, halflife |-> h, initial |-> init,
                       fraction |-> f, k |-> kk, years |-> yy,
                       athalflife |-> model(h, init, kk),
                       atyears |-> model(yy, init, kk)]
    /\ UNCHANGED <<pc, error, csv, rng, data, k, indices, alpha, beta, i, samples,
                   ratio, halflife, fraction, years, initial, t, biochar, drawn,
                   written, seed0, prev>>
    /\ UNCHANGED storageVars
    /\ UNCHANGED fireVars
    /\ UNCHANGED poolVars

\* the kernel is restarted and the notebook run again on the same file
Restart ==
    /\ pc \in {"halted", "counterfactual"}
    /\ ~prev.ran
    /\ prev' = [ran |-> TRUE, pc |-> pc, seed |-> seed0, data |-> data,
                alpha |-> alpha, beta |-> beta, drawn |-> drawn]
    /\ pc' = "setup"
    /\ error' = "none"
    /\ rng' = 0
    /\ seed0' = 0
    /\ data' = Unbound
    /\ k' = Unbound
    /\ indices' = Unbound
    /\ alpha' = Unbound
    /\ beta' = Unbound
    /\ i' = Unbound
    /\ samples' = Unbound
    /\ ratio' = Unbound
    /\ halflife' = Unbound
    /\ fraction' = Unbound
    /\ years' = Unbound
    /\ initial' = Unbound
    /\ t' = Unbound
    /\ biochar' = Unbound
    /\ call' = [made |-> FALSE]
    /\ drawn' = <<>>
    /\ written' = <<>>
    /\ UNCHANGED csv
    /\ UNCHANGED storageVars
    /\ UNCHANGED fireVars
    /\ UNCHANGED poolVars

Cells ==
    \/ CellSetup
    \/ CellBasic
    \/ CellLoad
    \/ CellBootInit
    \/ BootstrapIter
    \/ CellPredictDef
    \/ CellEval
    \/ CellDecay
    \/ CellYears
    \/ CellCurve

\* the notebook run once, top to bottom
Next == Cells

Spec == Init /\ [][Next]_vars

\* the notebook run once, with a call of predict made along the way
NextCalls == Cells \/ CallPredict

SpecCalls == Init /\ [][NextCalls]_vars

\* the notebook run, the kernel restarted, and the notebook run again
NextRerun == Cells \/ Restart

SpecRerun == Init /\ [][NextRerun]_vars

\* the notebook run once, with the decay formulas evaluated after it
NextDecay == Cells \/ CallModel

SpecDecay == Init /\ [][NextDecay]_vars

\* the notebook run up to the end of the bootstrap loop, at its full
\* iteration count
NextFull ==
    \/ CellSetup
    \/ CellBasic
    \/ CellLoad
    \/ CellBootInitFull
    \/ BootstrapIter

\* one table is enough: the iteration count does not depend on the file
InitFull == FreshKernel({Noiseless})

SpecFull == InitFull /\ [][NextFull]_vars

\* the notebook run up to the end of the bootstrap loop on a table with a
\* half-life <= 0
InitBad == FreshKernel(BadTables)

NextBad ==
    \/ CellSetup
    \/ CellBasic
    \/ CellLoad
    \/ CellBootInit
    \/ BootstrapIter

SpecBad == InitBad /\ [][NextBad]_vars

\* the notebook run once through its last cell
NextStorage == Cells \/ StorageCells

\* the tables of Init and the tables of one common half-life
InitStorage == FreshKernel(Tables \cup PeriodTables)

SpecStorage == InitStorage /\ [][NextStorage]_vars

---------------------------------------------------------------------------
(* The fire-analysis notebook (src/offset-project-fire/fire_analysis.ipynb): *)
(* geometry, coordinate systems, dates and the data behind the catalog.      *)
(*                                                                           *)
(* Geometry is one-dimensional: a coordinate is the number of a cell of      *)
(* CellSize metres, a polygon is the set of the cells it covers, and its     *)
(* area is the length covered.                                               *)

\* metres per cell
CellSize == 50
\* def points_to_pixels(points, buf=450)
BufferRadius == 450
\* tolerance = 50
SimplifyTolerance == 50

\* the coordinate of the same place in each coordinate system: to_crs moves
\* a geometry by the difference of the origins
CrsOrigin == [native |-> 0, working |-> 100, project |-> 70]
ToCrsPoint(x, from, to) == x + CrsOrigin[to] - CrsOrigin[from]
ToCrs(g, from, to) == {ToCrsPoint(c, from, to) : c \in g}

\* p.buffer(buf): everything within buf metres of the point
Buffer(p, buf) == (p - buf \div CellSize)..(p + buf \div CellSize)

\* cascaded_union of a sequence of geometries
cascaded_union(gs) == UNION {gs[j] : j \in 1..Len(gs)}

\* the outline left as it is: simplify as the identity
Simplify_Identity(g, tol) == g

\* g.simplify(tol, preserve_topology=False): the outline moves by up to tol;
\* here every edge of the polygon is pulled in by tol
Simplify(g, tol) ==
    {c \in g : \A d \in 1..(tol \div CellSize) : (c - d) \in g /\ (c + d) \in g}

\* geometry.area
Area(g) == Cardinality(g) * CellSize

\* a date as the file writes it, <<year, month, day>>, and pd.to_datetime of
\* it: a point on the time line
ToDatetime(raw) == (raw[1] * 12 + (raw[2] - 1)) * 31 + (raw[3] - 1)
\* index.strftime("%Y-%m-%d")
Strftime(d) == <<(d \div 31) \div 12, ((d \div 31) % 12) + 1, (d % 31) + 1>>

\* for sensor in ["modis", "noaa", "suomi"]
Sensors == <<"modis", "noaa", "suomi">>

\* the fire points a sensor's file may hold: a position (native CRS) and a date
Positions == {0, 12}
RawDates == {<<2020, 9, 7>>, <<2020, 10, 1>>}
FireRows == [x : Positions, date : RawDates]
SensorFiles == UNION {[1..n -> FireRows] : n \in 1..MaxSensorRows}

\* the project file: polygons in the project's CRS; the first holds two
\* polygons that overlap each other, the second one that lies away from
\* every fire
ProjectFiles == {<<60..75, 70..80>>, <<0..10>>}

\* the protocols fsspec knows
Protocols == {"file", "http", "https", "s3"}
\* urlpath of the source firms in catalog.yaml: 'hhttps://...'
FirmsScheme == "hhttps"
\* urlpath of the source project in catalog.yaml: 'https://...'
ProjectScheme == "https"

\* catalog.yaml beside the notebook, with the files its URLs serve: the
\* catalog as committed, and the catalog with the scheme of firms repaired
Catalogs ==
    [firms : [scheme : {FirmsScheme, "https"},
              files : [{"modis", "noaa", "suomi"} -> SensorFiles]],
     project : [scheme : {ProjectScheme}, file : ProjectFiles]]

\* source.read() of a geojson source: one row per feature, labelled 0, 1, ...
ReadFile(file) ==
    [crs |-> "native",
     rows |-> [j \in 1..Len(file) |->
                  [index |-> j - 1, geometry |-> file[j].x, date |-> file[j].date]]]

RECURSIVE ConcatRows(_)
\* pd.concat(gdfs): the rows one frame after the other, labels kept
ConcatRows(gs) == IF gs = <<>> THEN <<>> ELSE Head(gs).rows \o ConcatRows(Tail(gs))

RECURSIVE InsertRow(_, _)
InsertRow(r, rows) ==
    IF rows = <<>> THEN <<r>>
    ELSE IF r.index <= Head(rows).index THEN <<r>> \o rows
    ELSE <<Head(rows)>> \o InsertRow(r, Tail(rows))

RECURSIVE SortIndex(_)
\* gdf.sort_index(): the rows in ascending order of their labels
SortIndex(rows) ==
    IF rows = <<>> THEN <<>> ELSE InsertRow(Head(rows), SortIndex(Tail(rows)))

RECURSIVE Ascending(_)
\* the elements of a set of numbers in ascending order
Ascending(S) ==
    IF S = {} THEN <<>>
    ELSE LET m == CHOOSE x \in S : \A y \in S : x <= y
         IN  <<m>> \o Ascending(S \ {m})

RECURSIVE FirstSeen(_, _)
\* the dates of the rows in the order of their first appearance
FirstSeen(rows, seen) ==
    IF rows = <<>> THEN <<>>
    ELSE IF Head(rows).date \in seen THEN FirstSeen(Tail(rows), seen)
    ELSE <<Head(rows).date>> \o FirstSeen(Tail(rows), seen \cup {Head(rows).date})

\* the groups taken in the order the dates first appear (sort=False)
GroupKeys_FirstSeen(rows) == FirstSeen(rows, {})

\* gdf.groupby("date"): the group keys, ascending
GroupKeys(rows) == Ascending({rows[j].date : j \in 1..Len(rows)})

\* the rows of a group, in frame order
RECURSIVE GroupOf(_, _)
GroupOf(rows, date) ==
    IF rows = <<>> THEN <<>>
    ELSE IF Head(rows).date = date THEN <<Head(rows)>> \o GroupOf(Tail(rows), date)
    ELSE GroupOf(Tail(rows), date)

---------------------------------------------------------------------------
(* The cells of the fire-analysis notebook *)

\* a kernel about to run the first cell of the fire notebook, beside a catalog
InitFire ==
    /\ pc = "f_setup"
    /\ error = "none"
    /\ csv = <<>>
    /\ rng = 0
    /\ seed0 = 0
    /\ data = Unbound
    /\ k = Unbound
    /\ indices = Unbound
    /\ alpha = Unbound
    /\ beta = Unbound
    /\ i = Unbound
    /\ samples = Unbound
    /\ ratio = Unbound
    /\ halflife = Unbound
    /\ fraction = Unbound
    /\ years = Unbound
    /\ initial = Unbound
    /\ t = Unbound
    /\ biochar = Unbound
    /\ call = [made |-> FALSE]
    /\ drawn = <<>>
    /\ written = <<>>
    /\ prev = [ran |-> FALSE]
    /\ efficiency = Unbound
    /\ feedstock_start = Unbound
    /\ negligible = Unbound
    /\ feedstock_end = Unbound
    /\ k_feedstock = Unbound
    /\ feedstock = Unbound
    /\ NCS = Unbound
    /\ catalog \in Catalogs
    /\ fire = FreshNames
    /\ s3 = NoObjects
    /\ sheet = NoSheet
    /\ pool = FreshPool

\* imports; style, c, plot_opts, working_crs; cat = intake.open_catalog(
\* "./catalog.yaml"); write_to_s3 = False
CellFireSetup ==
    /\ pc = "f_setup"
    /\ fire' = [fire EXCEPT
                  !.names = @ \cup {"style", "c", "plot_opts", "working_crs",
                                    "cat", "write_to_s3"},
                  !.write_to_s3 = FALSE]
    /\ pc' = "f_read"
    /\ UNCHANGED <<error, catalog, s3>>
    /\ UNCHANGED biocharVars
    /\ UNCHANGED poolVars

\* gdfs = []; for sensor in [...]: temp = cat.firms(sensor=sensor).read();
\* gdfs.append(temp); then gdf = pd.concat(gdfs); native_crs = deepcopy(gdf.crs).
\* The first read fails when the scheme of the URL is no known protocol.
CellFireRead ==
    /\ pc = "f_read"
    /\ IF catalog.firms.scheme \notin Protocols
       THEN /\ fire' = [fire EXCEPT !.names = @ \cup {"gdfs", "sensor"}]
            /\ error' = "ValueError: Protocol not known"
            /\ pc' = "halted"
       ELSE LET gdfs == [j \in 1..Len(Sensors) |->
                            ReadFile(catalog.firms.files[Sensors[j]])]
            IN  /\ fire' = [fire EXCEPT
                              !.names = @ \cup {"gdfs", "sensor", "temp", "gdf",
                                                "native_crs"},
                              !.gdf = [crs |-> gdfs[1].crs, rows |-> ConcatRows(gdfs)],
                              !.native_crs = gdfs[1].crs]
                /\ error' = error
                /\ pc' = "f_project"
    /\ UNCHANGED <<catalog, s3>>
    /\ UNCHANGED biocharVars
    /\ UNCHANGED poolVars

\* project_crs = ...; project = cat.project.read();
\* project = project.set_crs(project_crs).to_crs(working_crs)
CellFireProject ==
    /\ pc = "f_project"
    /\ IF catalog.project.scheme \notin Protocols
       THEN /\ fire' = [fire EXCEPT !.names = @ \cup {"project_crs"}]
            /\ error' = "ValueError: Protocol not known"
            /\ pc' = "halted"
       ELSE /\ fire' = [fire EXCEPT
                          !.names = @ \cup {"project_crs", "project"},
                          !.project =
                              [crs |-> "working",
                               rows |-> [j \in 1..Len(catalog.project.file) |->
                                   [index |-> j - 1,
                                    geometry |-> ToCrs(catalog.project.file[j],
                                                       "project", "working")]]]]
            /\ error' = error
            /\ pc' = "f_buffer"
    /\ UNCHANGED <<catalog, s3>>
    /\ UNCHANGED biocharVars
    /\ UNCHANGED poolVars

\* def points_to_pixels(points, buf=450): return [p.buffer(buf) for p in points]
points_to_pixels(points, buf) == [j \in 1..Len(points) |-> Buffer(points[j], buf)]

\* gdf = gdf.set_geometry(points_to_pixels(gdf.geometry.to_crs(working_crs)
\* .values), crs=working_crs); gdf["date"] = pd.to_datetime(gdf["date"])
CellFireBuffer ==
    /\ pc = "f_buffer"
    /\ LET rows == fire.gdf.rows
           points == [j \in 1..Len(rows) |->
                         ToCrsPoint(rows[j].geometry, fire.gdf.crs, "working")]
           pixels == points_to_pixels(points, BufferRadius)
       IN  fire' = [fire EXCEPT
                      !.names = @ \cup {"points_to_pixels"},
                      !.gdf = [crs |-> "working",
                               rows |-> [j \in 1..Len(rows) |->
                                   [index |-> rows[j].index,
                                    geometry |-> pixels[j],
                                    date |-> ToDatetime(rows[j].date)]]]]
    /\ pc' = "f_sort"
    /\ UNCHANGED <<error, catalog, s3>>
    /\ UNCHANGED biocharVars
    /\ UNCHANGED poolVars

\* gdf = gdf.sort_index()
CellFireSort ==
    /\ pc = "f_sort"
    /\ fire' = [fire EXCEPT !.gdf.rows = SortIndex(@)]
    /\ pc' = "f_merge"
    /\ UNCHANGED <<error, catalog, s3>>
    /\ UNCHANGED biocharVars
    /\ UNCHANGED poolVars

\* the geometry column of a sequence of rows
Geometries(rows) == [j \in 1..Len(rows) |-> rows[j].geometry]

\* merged_gdf = {}; for i, (date, df) in enumerate(gdf.groupby("date")):
\* merged_gdf[date] = {"geometry": cascaded_union(df.geometry.values),
\* "day": i}; then the dictionary made a frame indexed by date
CellFireMerge ==
    /\ pc = "f_merge"
    /\ LET keys == GroupKeys(fire.gdf.rows)
       IN  fire' = [fire EXCEPT
                      !.names = @ \cup {"merged_gdf", "i", "date", "df"},
                      !.merged_gdf =
                          [crs |-> "working",
                           rows |-> [j \in 1..Len(keys) |->
                               [index |-> keys[j],
                                geometry |-> cascaded_union(
                                    Geometries(GroupOf(fire.gdf.rows, keys[j]))),
                                day |-> j - 1]]]]
    /\ pc' = "f_simplify"
    /\ UNCHANGED <<error, catalog, s3>>
    /\ UNCHANGED biocharVars
    /\ UNCHANGED poolVars

\* frame.to_crs(crs): every geometry moved to the other coordinate system
FrameToCrs(frame, crs) ==
    [crs |-> crs,
     rows |-> [j \in 1..Len(frame.rows) |->
                  [frame.rows[j] EXCEPT !.geometry = ToCrs(@, frame.crs, crs)]]]

\* frame.to_json(): a GeoJSON feature collection, one feature per row
ToJson(frame) ==
    [type |-> "FeatureCollection",
     features |-> [j \in 1..Len(frame.rows) |->
                      [id |-> Strftime(frame.rows[j].index),
                       properties |-> [day |-> frame.rows[j].day,
                                       date |-> frame.rows[j].date],
                       geometry |-> frame.rows[j].geometry]]]

\* tolerance = 50; full_res = merged_gdf.copy(); merged_gdf = merged_gdf
\* .set_geometry(merged_gdf.simplify(tolerance, preserve_topology=False));
\* merged_gdf["date"] = merged_gdf.index.strftime("%Y-%m-%d")
CellFireSimplify ==
    /\ pc = "f_simplify"
    /\ LET rows == fire.merged_gdf.rows
       IN  fire' = [fire EXCEPT
                      !.names = @ \cup {"tolerance", "full_res"},
                      !.tolerance = SimplifyTolerance,
                      !.full_res = fire.merged_gdf,
                      !.merged_gdf.rows = [j \in 1..Len(rows) |->
                          [index |-> rows[j].index,
                           geometry |-> Simplify(rows[j].geometry, SimplifyTolerance),
                           day |-> rows[j].day,
                           date |-> Strftime(rows[j].index)]]]
    /\ pc' = "f_plotdays"
    /\ UNCHANGED <<error, catalog, s3>>
    /\ UNCHANGED biocharVars
    /\ UNCHANGED poolVars

\* merged_gdf.reset_index().to_crs(native_crs).hvplot(...): a plot of a
\* converted copy; no name is bound or rebound
CellFirePlotDays ==
    /\ pc = "f_plotdays"
    /\ pc' = "f_burned"
    /\ UNCHANGED <<error, catalog, fire, s3>>
    /\ UNCHANGED biocharVars
    /\ UNCHANGED poolVars

\* the union taken of the simplified frame: cascaded_union(
\* merged_gdf.geometry.values)
CellFireBurned_Simplified ==
    /\ pc = "f_burned"
    /\ fire' = [fire EXCEPT
                  !.names = @ \cup {"burned_poly", "burned_gdf"},
                  !.burned_gdf =
                      [crs |-> "working",
                       rows |-> <<[index |-> "row",
                                   geometry |-> cascaded_union(
                                       Geometries(fire.merged_gdf.rows))]>>]]
    /\ pc' = "f_overlay"
    /\ UNCHANGED <<error, catalog, s3>>
    /\ UNCHANGED biocharVars
    /\ UNCHANGED poolVars

\* burned_poly = cascaded_union(full_res.geometry.values); burned_gdf = the
\* frame of that one polygon
CellFireBurned ==
    /\ pc = "f_burned"
    /\ fire' = [fire EXCEPT
                  !.names = @ \cup {"burned_poly", "burned_gdf"},
                  !.burned_gdf =
                      [crs |-> "working",
                       rows |-> <<[index |-> "row",
                                   geometry |-> cascaded_union(
                                       Geometries(fire.full_res.rows))]>>]]
    /\ pc' = "f_overlay"
    /\ UNCHANGED <<error, catalog, s3>>
    /\ UNCHANGED biocharVars
    /\ UNCHANGED poolVars

\* the overlay without the clipping: the whole of g for every row of the frame
Intersections_Unclipped(g, rows) == [j \in 1..Len(rows) |-> [geometry |-> g]]

RECURSIVE Intersections(_, _)
\* the non-empty intersections of the geometry g with the rows of a frame
Intersections(g, rows) ==
    IF rows = <<>> THEN <<>>
    ELSE IF g \cap Head(rows).geometry = {} THEN Intersections(g, Tail(rows))
    ELSE <<[geometry |-> g \cap Head(rows).geometry]>> \o Intersections(g, Tail(rows))

\* burned_project = geopandas.overlay(burned_gdf, project, how="intersection")
CellFireOverlay ==
    /\ pc = "f_overlay"
    /\ fire' = [fire EXCEPT
                  !.names = @ \cup {"burned_project"},
                  !.burned_project =
                      [crs |-> "working",
                       rows |-> Intersections(fire.burned_gdf.rows[1].geometry,
                                              fire.project.rows)]]
    /\ pc' = "f_plot"
    /\ UNCHANGED <<error, catalog, s3>>
    /\ UNCHANGED biocharVars
    /\ UNCHANGED poolVars

\* opts = dict(**plot_opts); del opts["tiles"]; plot = ...; plot
CellFirePlot ==
    /\ pc = "f_plot"
    /\ fire' = [fire EXCEPT !.names = @ \cup {"opts", "plot"}]
    /\ pc' = "f_areas"
    /\ UNCHANGED <<error, catalog, s3>>
    /\ UNCHANGED biocharVars
    /\ UNCHANGED poolVars

RECURSIVE AreaSum(_)
\* frame.area.sum()
AreaSum(rows) ==
    IF rows = <<>> THEN 0 ELSE Area(Head(rows).geometry) + AreaSum(Tail(rows))

\* project_area = project.geometry.area.sum(); burned_project_area =
\* burned_project.area.sum(); the percentage printed with two decimals
CellFireAreas ==
    /\ pc = "f_areas"
    /\ LET pa == AreaSum(fire.project.rows)
           ba == AreaSum(fire.burned_project.rows)
       IN  fire' = [fire EXCEPT
                      !.names = @ \cup {"project_area", "burned_project_area"},
                      !.project_area = pa,
                      !.burned_project_area = ba,
                      !.percent = MulDiv(ba, 100 * Scale, pa)]
    /\ pc' = "f_dump"
    /\ UNCHANGED <<error, catalog, s3>>
    /\ UNCHANGED biocharVars
    /\ UNCHANGED poolVars

\* the object the last cell writes to
DumpKey == "carbonplan-articles/offset-project-fire/lionshead_fire_polygons.json"

\* if write_to_s3: ... with fs.open(key, "w") as f:
\*     f.write(merged_gdf.to_crs(native_crs).to_json())
CellFireDump ==
    /\ pc = "f_dump"
    /\ IF fire.write_to_s3
       THEN /\ s3' = s3 \cup {[key |-> DumpKey,
                                body |-> ToJson(FrameToCrs(fire.merged_gdf,
                                                           fire.native_crs))]}
            /\ fire' = [fire EXCEPT !.names = @ \cup {"s3fs", "fs", "f"}]
       ELSE UNCHANGED <<s3, fire>>
    /\ pc' = "f_done"
    /\ UNCHANGED <<error, catalog>>
    /\ UNCHANGED biocharVars
    /\ UNCHANGED poolVars

\* the fire notebook run once, top to bottom
NextFire ==
    \/ CellFireSetup
    \/ CellFireRead
    \/ CellFireProject
    \/ CellFireBuffer
    \/ CellFireSort
    \/ CellFireMerge
    \/ CellFireSimplify
    \/ CellFirePlotDays
    \/ CellFireBurned
    \/ CellFireOverlay
    \/ CellFirePlot
    \/ CellFireAreas
    \/ CellFireDump

SpecFire == InitFire /\ [][NextFire]_vars

---------------------------------------------------------------------------
(* The buffer-pool notebook (src/offset-project-fire/buffer_pool_analysis    *)
(* .ipynb): the issuance table and the cells that clean and rank it.         *)
(*                                                                           *)
(* A row of the table carries the columns the notebook reads.  A cell of     *)
(* the column 'Forest Buffer Account Contribution' is a number, a text or    *)
(* empty (nan): [kind |-> "num", val |-> n], [kind |-> "str", val |-> 0],    *)
(* [kind |-> "nan", val |-> 0].                                              *)

Num(n) == [kind |-> "num", val |-> n]
Text == [kind |-> "str", val |-> 0]
Empty == [kind |-> "nan", val |-> 0]

\* the values of the column State in the order Python compares strings
StateOrder == <<"CA", "OR", "TX">>
StateRank(st) == CHOOSE j \in 1..Len(StateOrder) : StateOrder[j] = st

IssuanceRow(id, ty, phase, credits, contribution, st) ==
    [id |-> id, type |-> ty, phase |-> phase, credits |-> credits,
     contribution |-> contribution, state |-> st]

\* the rows the sheet may hold: reporting periods of ACR260 with and without
\* credits, under the compliance and the early-action programme; a large
\* early-action project; compliance projects, larger and smaller and one with
\* as many credits as a period of ACR260; projects whose contribution is the text
\* "reforest defer"; rows of another project type, one under the ID of a
\* forest project
SheetRows ==
    {IssuanceRow("ACR260", "Forest", "COP", 300, Num(45), "OR"),
     IssuanceRow("ACR260", "Forest", "COP", 0, Num(0), "OR"),
     IssuanceRow("ACR260", "Forest", "EA", 200, Num(30), "OR"),
     IssuanceRow("CAR730", "Forest", "EA", 900, Num(150), "CA"),
     IssuanceRow("CAR1", "Forest", "COP", 500, Num(80), "CA"),
     IssuanceRow("CAR2", "Forest", "COP", 300, Num(50), "CA"),
     IssuanceRow("CAR3", "Forest", "COP", 100, Num(15), "OR"),
     IssuanceRow("REF1", "Forest", "COP", 0, Text, "CA"),
     IssuanceRow("REF2", "Forest", "COP", 100, Text, "CA"),
     IssuanceRow("ODS1", "ODS", "COP", 400, Empty, "TX"),
     IssuanceRow("CAR1", "ODS", "COP", 100, Empty, "TX")}

\* sheet 3 of arboc_issuance.xlsx: up to MaxSheetRows rows
Sheets == UNION {[1..n -> SheetRows] : n \in 1..MaxSheetRows}

\* isinstance(x, str)
IsStr(x) == x.kind = "str"

\* df[~df["Forest Buffer Account Contribution"].apply(lambda x: isinstance(x, str))]
DropStrings(rows) == SelectSeq(rows, LAMBDA r : ~IsStr(r.contribution))

\* rows without credits kept: df[df["ARB Offset Credits Issued"] >= 0]
IssuedCredits_OrNone(rows) == SelectSeq(rows, LAMBDA r : r.credits >= 0)

\* df[df["ARB Offset Credits Issued"] > 0]
IssuedCredits(rows) == SelectSeq(rows, LAMBDA r : r.credits > 0)

\* df[df["Project Type"] == ty]
OfType(rows, ty) == SelectSeq(rows, LAMBDA r : r.type = ty)

\* no rows removed: both programmes kept
OfPhase_Both(rows, phase) == rows

\* forest_df[forest_df["Early Action/ Compliance"] == phase]
OfPhase(rows, phase) == SelectSeq(rows, LAMBDA r : r.phase = phase)

\* the keys of rows.groupby("OPR Project ID")
ProjectIds(rows) == {rows[j].id : j \in 1..Len(rows)}

\* rows.groupby("OPR Project ID")["ARB Offset Credits Issued"].sum() at id
CreditsOf(rows, id) ==
    SumSeq([j \in 1..Len(rows) |-> IF rows[j].id = id THEN rows[j].credits ELSE 0])

\* rows["ARB Offset Credits Issued"].sum()
TotalCredits(rows) == SumSeq([j \in 1..Len(rows) |-> rows[j].credits])

\* rows.groupby("OPR Project ID").State.max() at id
StateOf(rows, id) ==
    LET ranks == {StateRank(rows[j].state) : j \in {q \in 1..Len(rows) : rows[q].id = id}}
    IN  StateOrder[CHOOSE m \in ranks : \A q \in ranks : q <= m]

\* part / total * 100 for 0 <= part <= total: nan (0/0) when the total is 0
ShareOf(part, total) ==
    IF total = 0 THEN NaN ELSE MulDiv(part, 100 * Scale, total)

\* series.sort_values(ascending=False): the orders of the keys in which no
\* value is followed by a larger one (the order of equal values is the
\* sorting algorithm's)
DescendingOrders(ids, val) ==
    {o \in [1..Cardinality(ids) -> ids] :
        /\ \A a, b \in 1..Cardinality(ids) : a # b => o[a] # o[b]
        /\ \A a \in 1..(Cardinality(ids) - 1) : val[o[a]] >= val[o[a + 1]]}

\* the frame made of a sorted series and the column state mapped on its index
RankingFrame(order, val, states) ==
    [j \in 1..Len(order) |->
        [id |-> order[j], percent |-> val[order[j]], state |-> states[order[j]]]]

\* index.get_loc(id): the 0-based position of id in a frame it is a key of
GetLoc(frame, id) == (CHOOSE j \in 1..Len(frame) : frame[j].id = id) - 1

\* frame[:loc]: the row at loc left out
Head_Exclusive(frame, loc) == SubSeq(frame, 1, loc)

\* frame[: loc + 1]
HeadThrough(frame, loc) == SubSeq(frame, 1, loc + 1)

\* the literal of "total_buffer_pool = 24_079_774"
TotalBufferPool == 24079774

\* contribution / credits of one row: IEEE division, nan from an empty
\* cell, inf or nan when the divisor is 0
BufferContrib(r) ==
    IF r.contribution.kind = "nan" THEN NaN
    ELSE IF r.credits = 0
         THEN (IF r.contribution.val = 0 THEN NaN ELSE PosInf)
    ELSE (r.contribution.val * Scale) \div r.credits

---------------------------------------------------------------------------
(* The cells of the buffer-pool notebook *)

\* a kernel about to run the first cell of the buffer-pool notebook
InitPool ==
    /\ pc = "p_setup"
    /\ error = "none"
    /\ csv = <<>>
    /\ rng = 0
    /\ seed0 = 0
    /\ data = Unbound
    /\ k = Unbound
    /\ indices = Unbound
    /\ alpha = Unbound
    /\ beta = Unbound
    /\ i = Unbound
    /\ samples = Unbound
    /\ ratio = Unbound
    /\ halflife = Unbound
    /\ fraction = Unbound
    /\ years = Unbound
    /\ initial = Unbound
    /\ t = Unbound
    /\ biochar = Unbound
    /\ call = [made |-> FALSE]
    /\ drawn = <<>>
    /\ written = <<>>
    /\ prev = [ran |-> FALSE]
    /\ efficiency = Unbound
    /\ feedstock_start = Unbound
    /\ negligible = Unbound
    /\ feedstock_end = Unbound
    /\ k_feedstock = Unbound
    /\ feedstock = Unbound
    /\ NCS = Unbound
    /\ catalog = NoCatalog
    /\ fire = FreshNames
    /\ s3 = NoObjects
    /\ sheet \in Sheets
    /\ pool = FreshPool

\* imports; set_theme(...); c = colors("carbonplan_light")
CellPoolSetup ==
    /\ pc = "p_setup"
    /\ pool' = [pool EXCEPT !.names = @ \cup {"c"}]
    /\ pc' = "p_load"
    /\ UNCHANGED <<error, sheet>>
    /\ UNCHANGED biocharVars
    /\ UNCHANGED fireVars

\* df = pd.read_excel(url, sheet_name=3, engine="openpyxl"); display(df.head())
CellPoolLoad ==
    /\ pc = "p_load"
    /\ pool' = [pool EXCEPT !.names = @ \cup {"df"}, !.df = sheet]
    /\ pc' = "p_strings"
    /\ UNCHANGED <<error, sheet>>
    /\ UNCHANGED biocharVars
    /\ UNCHANGED fireVars

\* df[df[...].apply(lambda x: isinstance(x, str))]: the rows shown, none removed
CellPoolStrings ==
    /\ pc = "p_strings"
    /\ pc' = "p_clean"
    /\ UNCHANGED <<error, sheet, pool>>
    /\ UNCHANGED biocharVars
    /\ UNCHANGED fireVars

\* df = df[~df[...].apply(isinstance str)]; df = df[df["ARB Offset Credits
\* Issued"] > 0]; forest_df = df[df["Project Type"] == "Forest"]
CellPoolClean ==
    /\ pc = "p_clean"
    /\ pool' = [pool EXCEPT
                  !.names = @ \cup {"forest_df"},
                  !.df = IssuedCredits(DropStrings(pool.df)),
                  !.forest_df = OfType(IssuedCredits(DropStrings(pool.df)), "Forest")]
    /\ pc' = "p_unique"
    /\ UNCHANGED <<error, sheet>>
    /\ UNCHANGED biocharVars
    /\ UNCHANGED fireVars

\* display(forest_df["Early Action/ Compliance"].unique())
CellPoolUnique ==
    /\ pc = "p_unique"
    /\ pc' = "p_nunique"
    /\ UNCHANGED <<error, sheet, pool>>
    /\ UNCHANGED biocharVars
    /\ UNCHANGED fireVars

\* display(forest_df.groupby("OPR Project ID")[...].nunique().value_counts())
CellPoolNunique ==
    /\ pc = "p_nunique"
    /\ pc' = "p_cop"
    /\ UNCHANGED <<error, sheet, pool>>
    /\ UNCHANGED biocharVars
    /\ UNCHANGED fireVars

\* forest_df = forest_df[forest_df["Early Action/ Compliance"] == "COP"]
CellPoolCompliance ==
    /\ pc = "p_cop"
    /\ pool' = [pool EXCEPT !.forest_df = OfPhase(pool.forest_df, "COP")]
    /\ pc' = "p_count"
    /\ UNCHANGED <<error, sheet>>
    /\ UNCHANGED biocharVars
    /\ UNCHANGED fireVars

\* n_projects = forest_df["OPR Project ID"].nunique(); print(...)
CellPoolCount ==
    /\ pc = "p_count"
    /\ pool' = [pool EXCEPT
                  !.names = @ \cup {"n_projects"},
                  !.n_projects = Cardinality(ProjectIds(pool.forest_df))]
    /\ pc' = "p_project"
    /\ UNCHANGED <<error, sheet>>
    /\ UNCHANGED biocharVars
    /\ UNCHANGED fireVars

\* proj_id = "ACR260"; forest_df[forest_df["OPR Project ID"] == proj_id]
CellPoolProject ==
    /\ pc = "p_project"
    /\ pool' = [pool EXCEPT !.names = @ \cup {"proj_id"}, !.proj_id = "ACR260"]
    /\ pc' = "p_rank"
    /\ UNCHANGED <<error, sheet>>
    /\ UNCHANGED biocharVars
    /\ UNCHANGED fireVars

\* total_credits, per_proj_credits, perc_credits = per_proj_credits /
\* total_credits * 100, sorted descending, with the column state;
\* proj_loc = perc_credits.index.get_loc(proj_id); display(perc_credits[:
\* proj_loc + 1]).  get_loc raises KeyError for a key that is not in the index.
CellPoolRank ==
    /\ pc = "p_rank"
    /\ LET rows == pool.forest_df
           ids == ProjectIds(rows)
           total == TotalCredits(rows)
           perc == [id \in ids |-> ShareOf(CreditsOf(rows, id), total)]
           states == [id \in ids |-> StateOf(rows, id)]
       IN  \E order \in DescendingOrders(ids, perc) :
               LET frame == RankingFrame(order, perc, states)
               IN  IF pool.proj_id \notin ids
                   THEN /\ pool' = [pool EXCEPT
                                      !.names = @ \cup {"total_credits",
                                          "per_proj_credits", "perc_credits",
                                          "proj_state_map"},
                                      !.total_credits = total,
                                      !.perc_credits = frame]
                        /\ error' = "KeyError"
                        /\ pc' = "halted"
                   ELSE /\ pool' = [pool EXCEPT
                                      !.names = @ \cup {"total_credits",
                                          "per_proj_credits", "perc_credits",
                                          "proj_state_map", "proj_loc"},
                                      !.total_credits = total,
                                      !.perc_credits = frame,
                                      !.proj_loc = GetLoc(frame, pool.proj_id),
                                      !.shown = Append(@, HeadThrough(frame,
                                                    GetLoc(frame, pool.proj_id)))]
                        /\ error' = error
                        /\ pc' = "p_rankall"
    /\ UNCHANGED sheet
    /\ UNCHANGED biocharVars
    /\ UNCHANGED fireVars

\* per_proj_credits = df.loc[df["Project Type"] == "Forest"].groupby(...)
\* .sum(); proj_state_map = df.groupby("OPR Project ID").State.max();
\* sorted_credits = per_proj_credits.sort_values(ascending=False) with the
\* column state, the value column renamed "Percent Forest ARB Offset Credits
\* Issued"; proj_loc = ...; display(sorted_credits[: proj_loc + 1])
CellPoolRankAll ==
    /\ pc = "p_rankall"
    /\ LET rows == OfType(pool.df, "Forest")
           ids == ProjectIds(rows)
           sums == [id \in ids |-> CreditsOf(rows, id) * Scale]
           states == [id \in ids |-> StateOf(pool.df, id)]
       IN  \E order \in DescendingOrders(ids, sums) :
               LET frame == RankingFrame(order, sums, states)
               IN  pool' = [pool EXCEPT
                              !.names = @ \cup {"sorted_credits"},
                              !.sorted_credits = frame,
                              !.proj_loc = GetLoc(frame, pool.proj_id),
                              !.shown = Append(@, HeadThrough(frame,
                                            GetLoc(frame, pool.proj_id)))]
    /\ pc' = "p_fraction"
    /\ UNCHANGED <<error, sheet>>
    /\ UNCHANGED biocharVars
    /\ UNCHANGED fireVars

\* total_buffer_pool = 24_079_774; proj_credits = forest_df[forest_df["OPR
\* Project ID"] == proj_id]["ARB Offset Credits Issued"].sum();
\* proj_frac = proj_credits / total_buffer_pool * 100; the three prints
CellPoolFraction ==
    /\ pc = "p_fraction"
    /\ LET credits == CreditsOf(pool.forest_df, pool.proj_id)
       IN  pool' = [pool EXCEPT
                      !.names = @ \cup {"total_buffer_pool", "proj_credits",
                                        "proj_frac"},
                      !.proj_credits = credits,
                      !.proj_frac = (credits * 100 * Scale) \div TotalBufferPool]
    /\ pc' = "p_contrib"
    /\ UNCHANGED <<error, sheet>>
    /\ UNCHANGED biocharVars
    /\ UNCHANGED fireVars

\* forest_df.loc[:, "buffer_contrib"] = (forest_df["Forest Buffer Account
\* Contribution"] / forest_df["ARB Offset Credits Issued"]).copy(); describe()
CellPoolContrib ==
    /\ pc = "p_contrib"
    /\ pool' = [pool EXCEPT
                  !.forest_df = [j \in 1..Len(pool.forest_df) |->
                      [id |-> pool.forest_df[j].id,
                       type |-> pool.forest_df[j].type,
                       phase |-> pool.forest_df[j].phase,
                       credits |-> pool.forest_df[j].credits,
                       contribution |-> pool.forest_df[j].contribution,
                       state |-> pool.forest_df[j].state,
                       buffer_contrib |-> BufferContrib(pool.forest_df[j])]]]
    /\ pc' = "p_hist"
    /\ UNCHANGED <<error, sheet>>
    /\ UNCHANGED biocharVars
    /\ UNCHANGED fireVars

\* g = forest_df["buffer_contrib"].hist(color=c["red"]); ...
CellPoolHist ==
    /\ pc = "p_hist"
    /\ pool' = [pool EXCEPT !.names = @ \cup {"g"}]
    /\ pc' = "p_done"
    /\ UNCHANGED <<error, sheet>>
    /\ UNCHANGED biocharVars
    /\ UNCHANGED fireVars

\* the buffer-pool notebook run once, top to bottom
NextPool ==
    \/ CellPoolSetup
    \/ CellPoolLoad
    \/ CellPoolStrings
    \/ CellPoolClean
    \/ CellPoolUnique
    \/ CellPoolNunique
    \/ CellPoolCompliance
    \/ CellPoolCount
    \/ CellPoolProject
    \/ CellPoolRank
    \/ CellPoolRankAll
    \/ CellPoolFraction
    \/ CellPoolContrib
    \/ CellPoolHist

SpecPool == InitPool /\ [][NextPool]_vars

---------------------------------------------------------------------------
(* Properties *)

\* the cells after the bootstrap loop has run to its end
PostLoop == {"predictdef"} \cup PostDef

\* the resample of pass it (1-based): its ratios and its log half-lives
RatiosOf(it) == Lookup(data, drawn[it], "ratio")
LogHalfLivesOf(it) == LogSeq(Lookup(data, drawn[it], "halflife"))

\* exp(intercept + slope * r) of the recorded pair j
Predicted(j, r) == ExpFx(alpha[j] + (beta[j] * r) \div Scale)
PredictedSet(r) == {Predicted(j, r) : j \in 1..Len(alpha)}
MinOf(S) == CHOOSE v \in S : \A w \in S : v <= w
MaxOf(S) == CHOOSE v \in S : \A w \in S : w <= v

\* the order statistic of 0-based rank n among the predictions for r, by
\* counting: fewer than n+1 predictions lie below it, at least n+1 at or below
OrderStat(r, n) ==
    CHOOSE v \in PredictedSet(r) :
        /\ Cardinality({j \in 1..Len(alpha) : Predicted(j, r) < v}) <= n
        /\ Cardinality({j \in 1..Len(alpha) : Predicted(j, r) <= v}) > n

\* the percentile p of the predictions for r by linear interpolation
\* between the order statistics next to the virtual index p/100 * (n-1)
Interpolated(r, p) ==
    LET n == Len(alpha)
        num == p * (n - 1)
        den == 100 * Scale
        lo == num \div den
        hi == IF lo + 1 <= n - 1 THEN lo + 1 ELSE n - 1
    IN  OrderStat(r, lo) + MulDiv(OrderStat(r, hi) - OrderStat(r, lo), num % den, den)

InRange(p) == 0 <= p /\ p <= 100 * Scale
ValidPcts == {p \in ProbePcts : InRange(p)}

\* C1: in every bootstrap iteration the resample has exactly
\* len(observations) entries, each an index of the observation table, for a
\* table of any size n >= 2
C1_ResampleSizedByTable ==
    (Len(drawn) > 0 /\ Len(data) >= 2) =>
        /\ Len(samples) = Len(data)
        /\ \A j \in 1..Len(samples) : samples[j] \in 0..(Len(data) - 1)

\* C2: once the loop has finished, alpha and beta both have as many entries
\* as there were iterations, every slot was assigned exactly once, and slot
\* i holds the intercept (alpha) and the slope (beta) of the OLS fit on the
\* resample of iteration i
C2_PairPerIteration ==
    pc \in PostLoop =>
        /\ Len(alpha) = Len(drawn)
        /\ Len(beta) = Len(drawn)
        /\ Len(drawn) = NumIter
        /\ \A it \in 1..Len(drawn) :
              LET params == OLSParams(LogHalfLivesOf(it), RatiosOf(it))
              IN  /\ written[it] = 1
                  /\ alpha[it] = params[2]
                  /\ beta[it] = params[1]

C2_Witness ==
    /\ pc = "predictdef"
    /\ \E a, b \in 1..Len(alpha) : alpha[a] # alpha[b] /\ beta[a] # beta[b]
    /\ \E a \in 1..Len(alpha) : alpha[a] # beta[a] /\ alpha[a] # 0

\* C3: a call predict(ratio, percentile) with the percentile in [0, 100]
\* returns the percentile, by linear interpolation between adjacent order
\* statistics, of exp(intercept_i + slope_i * ratio) over all recorded pairs
C3_PredictIsInterpolatedPercentile ==
    (call.made /\ InRange(call.prctile)) =>
        call.result = Returned(Interpolated(call.ratio, call.prctile))

C3_Witness ==
    /\ call.made
    /\ call.prctile = 250
    /\ call.result.raised = "none"
    /\ call.result.ret[1] > MinOf(PredictedSet(call.ratio))
    /\ call.result.ret[1] < MaxOf(PredictedSet(call.ratio))
    /\ Cardinality(PredictedSet(call.ratio)) = Len(alpha)

\* C4: predict is monotonic in the percentile: p1 < p2 in [0, 100] gives
\* predict(ratio, p1) <= predict(ratio, p2), for every fit and ratio
C4_MonotonicInPercentile ==
    pc \in PostDef =>
        \A r \in ProbeRatios : \A p1, p2 \in ValidPcts :
            p1 < p2 => predict(r, p1).ret[1] <= predict(r, p2).ret[1]

C4_Witness ==
    /\ pc \in PostDef
    /\ \E r \in ProbeRatios :
          /\ predict(r, 0).ret[1] < predict(r, 250).ret[1]
          /\ predict(r, 250).ret[1] < predict(r, 5000).ret[1]
          /\ predict(r, 5000).ret[1] < predict(r, 100 * Scale).ret[1]
          /\ alpha[1] > alpha[Len(alpha)]

\* C5: predict with percentile 0 returns exactly the minimum, and with
\* percentile 100 exactly the maximum, of exp(intercept_i + slope_i * ratio)
C5_EndpointsAreMinAndMax ==
    pc \in PostDef =>
        \A r \in ProbeRatios :
            /\ predict(r, 0) = Returned(MinOf(PredictedSet(r)))
            /\ predict(r, 100 * Scale) = Returned(MaxOf(PredictedSet(r)))

C5_Witness ==
    /\ pc \in PostDef
    /\ \E r \in ProbeRatios :
          /\ MinOf(PredictedSet(r)) < MaxOf(PredictedSet(r))
          /\ predict(r, 0).ret[1] # Predicted(1, r)
          /\ predict(r, 100 * Scale).ret[1] # Predicted(Len(alpha), r)

\* C6: the median predict(ratio, 50) lies between the minimum and the
\* maximum of exp(intercept_i + slope_i * ratio) over all bootstrap samples
C6_MedianWithinRange ==
    pc \in PostDef =>
        \A r \in ProbeRatios :
            /\ predict(r, 5000).raised = "none"
            /\ MinOf(PredictedSet(r)) <= predict(r, 5000).ret[1]
            /\ predict(r, 5000).ret[1] <= MaxOf(PredictedSet(r))

C6_Witness ==
    /\ pc \in PostDef
    /\ \E r \in ProbeRatios :
          /\ MinOf(PredictedSet(r)) < predict(r, 5000).ret[1]
          /\ predict(r, 5000).ret[1] < MaxOf(PredictedSet(r))

\* C7: with fewer than 2 observations fit fails and records no
\* (intercept, slope) pair
C7_FailsOnInsufficientData ==
    (pc \notin {"setup", "basic", "load", "bootinit"} /\ Len(data) < 2) =>
        /\ pc \notin PostLoop
        /\ \A j \in 1..Len(written) : written[j] = 0
        /\ pc = "halted" => error # "none"

\* C8: predict fails with the percentile-range error and returns no value
\* whenever the percentile is below 0 or above 100, and returns a value for
\* every percentile in [0, 100]
C8_PercentileRangeChecked ==
    call.made =>
        /\ ~InRange(call.prctile) =>
              call.result = [raised |-> PercentileRangeError, ret |-> NoValue]
        /\ InRange(call.prctile) =>
              (call.result.raised = "none" /\ Len(call.result.ret) = 1)

C8_Witness ==
    /\ call.made
    /\ call.prctile > 100 * Scale
    /\ call.result.raised = PercentileRangeError
    /\ call.result.ret = NoValue

FitUntouched == pc \in PostLoop => (alpha' = alpha /\ beta' = beta)

\* C10: once the fit exists, a call of predict gives the same value whenever
\* it is made: the value an earlier call returned is what predict returns
\* for the same arguments in every later state, and no cell after the fit
\* (the cells rebinding k, t and biochar included) changes alpha or beta
C10_PredictStableAfterFit ==
    /\ [](call.made => call.result = predict(call.ratio, call.prctile))
    /\ [][FitUntouched]_vars

C10_Witness ==
    /\ call.made
    /\ call.early
    /\ pc = "counterfactual"
    /\ call.result.raised = "none"
    /\ call.result.ret[1] > 0
    /\ \E a \in 1..Len(alpha) : alpha[a] # 0

\* C11: the fit advances no generator shared with other code: once the
\* bootstrap loop has drawn, numpy's global generator (np.random) is still in
\* the state the kernel started with
C11_FitLeavesSharedGeneratorAlone ==
    Len(drawn) > 0 => rng = seed0

\* |a - b| <= tol
Near(a, b, tol) == a - b <= tol /\ b - a <= tol

\* the slope of the exact line through the noiseless table: -ln(10) / 0.1
ExactSlope == 0 - (LnFx(10 * Scale) * Scale) \div 10

\* C12: on the noiseless table every pass of the loop succeeds and records
\* the slope of the exact line (about -23.03, within 0.25), whatever the
\* resamples are, and predict(0.1, 50) is about 100 (within 1)
C12_NoiselessExactRecovery ==
    (Len(drawn) > 0 /\ data = Noiseless) =>
        /\ error = "none"
        /\ \A j \in 1..Len(written) :
              written[j] > 0 => Near(beta[j], ExactSlope, Scale \div 4)
        /\ pc \in PostDef =>
              /\ predict(10, 50 * Scale).raised = "none"
              /\ Near(predict(10, 50 * Scale).ret[1], 100 * Scale, Scale)

\* the number of resamples the notebook's text gives: "for each of 1000
\* random samples (with replacement)"
DocResamples == 1000

\* C13: the bootstrap fits on exactly 1000 resamples and stores one estimate
\* per resample: alpha and beta have 1000 slots, the loop never draws more
\* than 1000 resamples and has drawn exactly 1000 when it ends
C13_ThousandResamples ==
    Len(written) > 0 =>
        /\ Len(alpha) = DocResamples
        /\ Len(beta) = DocResamples
        /\ Len(drawn) <= DocResamples
        /\ pc \in PostLoop => Len(drawn) = DocResamples
\* C14: half-life round trip: with k = ln(2)/h the mass left after h years is
\* half the initial mass (within a hundredth of it), for every half-life and
\* initial mass evaluated and for the half-life the notebook predicted; with
\* initial = 100 and h = 50 the mass at t = 50 is 50
C14_HalfLifeRoundTrip ==
    /\ call.made =>
          /\ Near(call.athalflife, call.initial \div 2, call.initial \div 100)
          /\ (call.halflife = 50 * Scale /\ call.initial = 100 * Scale) =>
                Near(call.athalflife, 50 * Scale, Scale \div 100)
    /\ pc = "counterfactual" =>
          Near(model(halflife, initial, k), initial \div 2, initial \div 100)

C14_Witness ==
    /\ call.made
    /\ call.halflife = 50 * Scale
    /\ call.initial = 100 * Scale
    /\ call.k = [num |-> LnFx(2 * Scale), den |-> 50 * Scale]
    /\ call.athalflife = 50 * Scale
    /\ halflife # call.halflife

\* C15: time-to-fraction round trip: with years = -ln(fraction)/k the mass
\* left after that many years is initial * fraction (within a hundredth of
\* the initial mass), for every half-life, initial mass and fraction
\* evaluated and for the notebook's own k, fraction = 0.9 and initial = 100:
\* the point (years, initial * fraction) lies on the curve
C15_TimeToFractionRoundTrip ==
    /\ call.made =>
          Near(call.atyears, (call.initial * call.fraction) \div Scale,
               call.initial \div 100)
    /\ pc = "counterfactual" =>
          Near(model(years, biochar.initial, biochar.k),
               (initial * fraction) \div Scale, initial \div 100)

C15_Witness ==
    /\ call.made
    /\ pc = "counterfactual"
    /\ call.fraction = 90
    /\ call.years > 0
    /\ call.atyears < call.initial
    /\ call.atyears > call.athalflife
    /\ years > 0
    /\ years < halflife

\* a resample of some pass, all its labels in the table, holds an
\* observation with a half-life <= 0
NonPositiveDrawn ==
    \E it \in 1..Len(drawn) :
        /\ ~LabelsMissing(data, drawn[it])
        /\ \E j \in 1..Len(drawn[it]) : data[drawn[it][j] + 1].halflife <= 0

\* the errors that name a numeric-domain failure
NumericDomainErrors == {"FloatingPointError", "ValueError: math domain error"}

\* C16: no nan or infinite value is ever stored in alpha or beta, and once a
\* resample holds a half-life <= 0 the fit has stopped with a numeric-domain
\* error
C16_FailsFastOutsideDomain ==
    Len(drawn) > 0 =>
        /\ \A j \in 1..Len(alpha) : IsFinite(alpha[j]) /\ IsFinite(beta[j])
        /\ NonPositiveDrawn => (pc = "halted" /\ error \in NumericDomainErrors)

\* the O:C ratio the notebook's text evaluates the project at: "assume a
\* project reports an O:C ratio of 0.08"
DocRatio == 8

\* C17: the evaluation is made for the reported ratio 0.08 at the 2.5th
\* percentile: once the evaluation cell has run, ratio is 0.08, halflife is
\* predict(0.08, 2.5), and k and years derive from that half-life
C17_EvaluatedAtReportedRatio ==
    pc \in PostDef \ {"eval"} =>
        /\ ratio = DocRatio
        /\ halflife = predict(DocRatio, 250).ret[1]
        /\ pc \in {"years", "curve", "counterfactual"} => k = DecayConstant(halflife)
        /\ pc \in {"curve", "counterfactual"} => years = YearsFor(fraction, k)

\* the names each cell of the fire notebook reads
FireReads ==
    [f_setup |-> {},
     f_read |-> {"cat"},
     f_project |-> {"cat", "working_crs"},
     f_buffer |-> {"gdf", "working_crs"},
     f_sort |-> {"gdf"},
     f_merge |-> {"gdf", "working_crs"},
     f_simplify |-> {"merged_gdf"},
     f_plotdays |-> {"merged_gdf", "native_crs", "plot_opts"},
     f_burned |-> {"full_res", "working_crs"},
     f_overlay |-> {"burned_gdf", "project"},
     f_plot |-> {"plot_opts", "burned_gdf", "native_crs", "c", "project",
                 "burned_project"},
     f_areas |-> {"project", "burned_project"},
     f_dump |-> {"write_to_s3"}]

\* C18: a notebook runs as a linear script: run top to bottom from an empty
\* namespace with the catalog as committed, the fire notebook never stops
\* with an error, and every name the cell about to run reads is bound
C18_RunsToLastCell ==
    catalog.firms.scheme = FirmsScheme =>
        /\ pc # "halted"
        /\ error = "none"
        /\ pc \in DOMAIN FireReads => FireReads[pc] \subseteq fire.names

\* the fire points of the catalog's files: position (working CRS) and date
FirePoints ==
    UNION {{[at |-> ToCrsPoint(catalog.firms.files[sn][j].x, "native", "working"),
             date |-> catalog.firms.files[sn][j].date]
            : j \in 1..Len(catalog.firms.files[sn])}
           : sn \in DOMAIN catalog.firms.files}

\* the cells within the buffer radius of a point, by distance
Within(at) ==
    LET reach == BufferRadius \div CellSize + 1
    IN  {c \in (at - reach)..(at + reach) :
            (IF c >= at THEN c - at ELSE at - c) * CellSize <= BufferRadius}

\* calendar order of two dates <<year, month, day>>
Before(a, b) ==
    \/ a[1] < b[1]
    \/ a[1] = b[1] /\ a[2] < b[2]
    \/ a[1] = b[1] /\ a[2] = b[2] /\ a[3] < b[3]

\* C19: after the merge, every row of gdf carries the 450 m buffer of its
\* point, and merged_gdf has exactly one row per distinct date of the fire
\* points, whose geometry is the union of the buffers of exactly the points
\* of that date and whose day is the 0-based rank of the date in calendar
\* order
C19_DailyBurnedArea ==
    pc = "f_simplify" =>
        LET merged == fire.merged_gdf.rows
            dates == {p.date : p \in FirePoints}
        IN  /\ {fire.gdf.rows[j].geometry : j \in 1..Len(fire.gdf.rows)}
                  = {Within(p.at) : p \in FirePoints}
            /\ Len(merged) = Cardinality(dates)
            /\ \A d \in dates :
                  \E j \in 1..Len(merged) :
                      /\ Strftime(merged[j].index) = d
                      /\ merged[j].geometry =
                            UNION {Within(p.at) : p \in {q \in FirePoints : q.date = d}}
                      /\ merged[j].day = Cardinality({e \in dates : Before(e, d)})

C19_Witness ==
    /\ pc = "f_simplify"
    /\ Len(fire.merged_gdf.rows) = 2
    /\ Before(catalog.firms.files["noaa"][1].date, catalog.firms.files["modis"][1].date)
    /\ \E j \in 1..2 :
          Cardinality(fire.merged_gdf.rows[j].geometry) > Cardinality(Within(0))
    /\ fire.merged_gdf.rows[1].day = 0
    /\ fire.merged_gdf.rows[2].day = 1

\* C20: every complete run of the fire notebook ends with the simplified
\* per-day polygons, converted to the native CRS, written to the output
\* object
C20_SimplifiedPolygonsSaved ==
    pc = "f_done" =>
        \E o \in s3 :
            /\ o.key = DumpKey
            /\ o.body = ToJson(FrameToCrs(fire.merged_gdf, fire.native_crs))


\* the whole years 0, 1, 2, ... that lie before the end of the period
YearsOfPeriod == {j \in 0..(years \div Scale + 1) : j * Scale < years}

\* C26: the net carbon storage is read at the end of the permanence period:
\* when the cell that reads it is about to run, the arrays hold one element
\* per whole year before years, and the integer part of years is the index
\* of one of them, the last
C26_NetStorageReadAtEnd ==
    pc = "ncs" =>
        /\ years > 0
        /\ ArangeLen(biochar.t) = Cardinality(YearsOfPeriod)
        /\ ArangeLen(feedstock.t) = Cardinality(YearsOfPeriod)
        /\ YearIndex(years) \in YearsOfPeriod
        /\ \A j \in YearsOfPeriod : j <= YearIndex(years)

\* the cells after k_feedstock is bound, the run not stopped
PostKFeedstock == {"period", "ncs", "summary", "done"}

\* C27: the minimum feedstock decay constant meets its target at the
\* permanence horizon: once k_feedstock is bound, feedstock_start is
\* initial / efficiency, feedstock_end is initial * fraction * negligible,
\* the feedstock curve at years is feedstock_end (within 0.02 tC), and
\* feedstock_end is the fraction negligible of the biochar curve at years
\* (within 0.02 tC)
C27_FeedstockMeetsTargetAtHorizon ==
    pc \in PostKFeedstock =>
        /\ Near(feedstock_start * efficiency, initial * Scale, Scale)
        /\ feedstock_end * Fine * Scale = initial * fraction * negligible
        /\ k_feedstock.num > 0
        /\ Near(modelFine(years, feedstock_start, k_feedstock), feedstock_end, 2)
        /\ Near(feedstock_end * Fine, negligible * modelFine(years, initial, k),
                2 * Fine)

C27_Witness ==
    /\ pc = "done"
    /\ years > Scale
    /\ feedstock_end > 0
    /\ feedstock_end < feedstock_start
    /\ modelFine(years, feedstock_start, k_feedstock) > 0
    /\ modelFine(years \div 2, feedstock_start, k_feedstock) > feedstock_end + 2

\* the distinct ratio values of the resample of pass it
DistinctRatios(it) == {RatiosOf(it)[j] : j \in 1..Len(drawn[it])}

\* C25: on a table with at least two distinct ratio values, every resample
\* the loop draws (its labels all in the table) holds at least two distinct
\* ratio values, so no pass stops on a one-ratio resample and no slot of
\* alpha and beta holds the fit of one
C25_ResampleHasTwoRatios ==
    \A it \in 1..Len(drawn) :
        (/\ Cardinality({data[j].ratio : j \in 1..Len(data)}) >= 2
         /\ ~LabelsMissing(data, drawn[it])) =>
            /\ Cardinality(DistinctRatios(it)) >= 2
            /\ error # "IndexError"

\* the buffers of the fire points of one date, and of all fire points
DayBuffers(d) == UNION {Within(p.at) : p \in {q \in FirePoints : q.date = d}}
AllBuffers == UNION {Within(p.at) : p \in FirePoints}

\* the polygons of the project file in the working CRS
ProjectPolygons ==
    [j \in 1..Len(catalog.project.file) |->
        {c + CrsOrigin.working - CrsOrigin.project : c \in catalog.project.file[j]}]

\* the cells of the fire notebook after the named cell has run
PostSimplify == {"f_plotdays", "f_burned", "f_overlay", "f_plot", "f_areas",
                 "f_dump", "f_done"}
PostBurned == {"f_overlay", "f_plot", "f_areas", "f_dump", "f_done"}
PostOverlay == {"f_plot", "f_areas", "f_dump", "f_done"}

\* C21: the comparison with the project uses full-resolution geometry: from
\* the simplification on, full_res holds one row per date with the whole
\* union of that date's buffers; the single burned polygon is the union of
\* all buffers, nothing taken off; and every row of the overlay is that
\* polygon cut to a project polygon
C21_FullResolutionComparison ==
    /\ pc \in PostSimplify =>
          /\ Len(fire.full_res.rows) = Cardinality({p.date : p \in FirePoints})
          /\ \A j \in 1..Len(fire.full_res.rows) :
                fire.full_res.rows[j].geometry
                    = DayBuffers(Strftime(fire.full_res.rows[j].index))
    /\ pc \in PostBurned =>
          /\ Len(fire.burned_gdf.rows) = 1
          /\ fire.burned_gdf.rows[1].geometry = AllBuffers
    /\ pc \in PostOverlay =>
          LET all == AllBuffers
          IN  \A j \in 1..Len(fire.burned_project.rows) :
                  \E q \in 1..Len(ProjectPolygons) :
                      fire.burned_project.rows[j].geometry
                          = all \cap ProjectPolygons[q]

C21_Witness ==
    /\ pc = "f_plot"
    /\ Len(fire.full_res.rows) = 2
    /\ \A j \in 1..2 :
          /\ fire.merged_gdf.rows[j].geometry # fire.full_res.rows[j].geometry
          /\ fire.merged_gdf.rows[j].geometry # {}
    /\ cascaded_union(Geometries(fire.merged_gdf.rows))
          # fire.burned_gdf.rows[1].geometry
    /\ Len(fire.burned_project.rows) > 0

\* C28: the printed percentage lies between 0 and 100: the burned project
\* area is the sum, over the project polygons, of the part of each that
\* lies in the burned polygon, the project area is the sum of the whole
\* polygons, and the first never exceeds the second, polygons that overlap
\* each other included
C28_PercentBurnedWithinRange ==
    pc \in {"f_dump", "f_done"} =>
        /\ fire.project_area
              = SumSeq([j \in 1..Len(ProjectPolygons) |->
                           Cardinality(ProjectPolygons[j]) * CellSize])
        /\ LET all == AllBuffers
           IN  fire.burned_project_area
                 = SumSeq([j \in 1..Len(ProjectPolygons) |->
                              Cardinality(ProjectPolygons[j] \cap all) * CellSize])
        /\ fire.burned_project_area <= fire.project_area
        /\ fire.percent >= 0
        /\ fire.percent <= 100 * Scale

C28_Witness ==
    /\ pc = "f_done"
    /\ Len(ProjectPolygons) = 2
    /\ ProjectPolygons[1] \cap ProjectPolygons[2] # {}
    /\ Len(fire.burned_project.rows) = 2
    /\ fire.percent > 0
    /\ fire.percent < 100 * Scale

\* a row of the sheet meets the four conditions of the cleaning cells
Cleaned(r) ==
    /\ r.contribution.kind # "str"
    /\ r.credits > 0
    /\ r.type = "Forest"
    /\ r.phase = "COP"

\* how often the row r occurs in a sequence of rows
Occurrences(rows, r) == Cardinality({j \in 1..Len(rows) : rows[j] = r})

\* the cells between the compliance filter and the column buffer_contrib
PostCompliance == {"p_count", "p_project", "p_rank", "p_rankall", "p_fraction",
                   "p_contrib"}

\* C22: after the cleaning cells every row of forest_df has a contribution
\* that is no text, credits > 0, the project type Forest and the programme
\* COP; every row of the sheet with these four properties is in forest_df,
\* as often as in the sheet; and no project ID of forest_df is listed under
\* two programmes
C22_CleanedForestRows ==
    pc \in PostCompliance =>
        /\ \A j \in 1..Len(pool.forest_df) : Cleaned(pool.forest_df[j])
        /\ \A r \in SheetRows :
              Occurrences(pool.forest_df, r)
                  = (IF Cleaned(r) THEN Occurrences(sheet, r) ELSE 0)
        /\ \A a, b \in 1..Len(pool.forest_df) :
              pool.forest_df[a].id = pool.forest_df[b].id
                  => pool.forest_df[a].phase = pool.forest_df[b].phase

C22_Witness ==
    /\ pc = "p_count"
    /\ Len(pool.forest_df) = 1
    /\ Len(sheet) = 3
    /\ \E a, b \in 1..Len(sheet) :
          /\ sheet[a].id = sheet[b].id
          /\ sheet[a].type = "Forest" /\ sheet[b].type = "Forest"
          /\ sheet[a].credits > 0 /\ sheet[b].credits > 0
          /\ sheet[a].phase = "EA" /\ sheet[b].phase = "COP"
    /\ \E a \in 1..Len(sheet) : sheet[a].contribution.kind = "str"

\* the credits of project id in the cleaned rows of the sheet, their total,
\* and the project's share of the total in percent
CleanedCredits(id) ==
    SumSeq([j \in 1..Len(sheet) |->
               IF Cleaned(sheet[j]) /\ sheet[j].id = id THEN sheet[j].credits ELSE 0])
CleanedTotal ==
    SumSeq([j \in 1..Len(sheet) |-> IF Cleaned(sheet[j]) THEN sheet[j].credits ELSE 0])
CleanedShare(id) == MulDiv(CleanedCredits(id), 100 * Scale, CleanedTotal)
CleanedIds == {sheet[j].id : j \in {q \in 1..Len(sheet) : Cleaned(sheet[q])}}

\* C23: the first ranking table shown is a prefix of the projects in
\* descending order of share that ends with ACR260: it has proj_loc + 1 rows
\* of distinct projects, each with its share in percent, the last is ACR260,
\* no earlier row has a smaller share, every project with a larger share is
\* in it, and so the number of rows is a 1-based rank of ACR260: more than
\* the number of larger projects, at most the number of projects not smaller
C23_RankingEndsWithProject ==
    pc = "p_rankall" =>
        LET tbl == pool.shown[1]
            n == Len(tbl)
            own == CleanedShare("ACR260")
        IN  /\ n = pool.proj_loc + 1
            /\ tbl[n].id = "ACR260"
            /\ \A a, b \in 1..n : a # b => tbl[a].id # tbl[b].id
            /\ \A j \in 1..n :
                  /\ tbl[j].id \in CleanedIds
                  /\ tbl[j].percent = CleanedShare(tbl[j].id)
                  /\ tbl[j].percent >= own
            /\ \A id \in CleanedIds :
                  CleanedShare(id) > own => \E j \in 1..n : tbl[j].id = id
            /\ n > Cardinality({id \in CleanedIds : CleanedShare(id) > own})
            /\ n <= Cardinality({id \in CleanedIds : CleanedShare(id) >= own})

C23_Witness ==
    /\ pc = "p_rankall"
    /\ Len(pool.shown[1]) = 2
    /\ Len(pool.perc_credits) = 3
    /\ pool.shown[1][1].percent > pool.shown[1][2].percent
    /\ pool.perc_credits[3].percent < pool.shown[1][2].percent

\* a row of the sheet is a forest row that the first two cleaning filters keep
CleanedBothPhases(r) ==
    /\ r.contribution.kind # "str"
    /\ r.credits > 0
    /\ r.type = "Forest"

\* C24: the second ranking table is the first table made again with both
\* programmes: each row holds, for a forest project of either programme, its
\* share in percent of all forest credits issued, and the largest state of
\* the forest rows of that project
C24_SecondTableSameColumns ==
    pc \in {"p_fraction", "p_contrib", "p_hist", "p_done"} =>
        LET rows == {j \in 1..Len(sheet) : CleanedBothPhases(sheet[j])}
            total == SumSeq([j \in 1..Len(sheet) |->
                                IF j \in rows THEN sheet[j].credits ELSE 0])
            creditsOf(id) == SumSeq([j \in 1..Len(sheet) |->
                                IF j \in rows /\ sheet[j].id = id
                                THEN sheet[j].credits ELSE 0])
        IN  \A j \in 1..Len(pool.sorted_credits) :
                LET row == pool.sorted_credits[j]
                IN  /\ row.percent = MulDiv(creditsOf(row.id), 100 * Scale, total)
                    /\ \E q \in rows : sheet[q].id = row.id /\ sheet[q].state = row.state

\* C29: the buffer-contribution ratio never divides by zero: when the ratio
\* is about to be computed every row of forest_df has a contribution that is
\* no text and credits > 0, and afterwards no buffer_contrib is infinite and
\* the buffer_contrib of a row with a number as contribution is that number
\* over the credits
C29_RatioNeverDividesByZero ==
    /\ pc = "p_contrib" =>
          \A j \in 1..Len(pool.forest_df) :
              /\ pool.forest_df[j].contribution.kind \in {"num", "nan"}
              /\ pool.forest_df[j].credits > 0
    /\ pc \in {"p_hist", "p_done"} =>
          \A j \in 1..Len(pool.forest_df) :
              LET r == pool.forest_df[j]
              IN  /\ r.buffer_contrib \notin {PosInf, NegInf}
                  /\ r.contribution.kind = "num" =>
                        /\ r.buffer_contrib # NaN
                        /\ r.buffer_contrib * r.credits <= r.contribution.val * Scale
                        /\ (r.buffer_contrib + 1) * r.credits > r.contribution.val * Scale

C29_Witness ==
    /\ pc = "p_done"
    /\ Len(pool.forest_df) = 1
    /\ pool.forest_df[1].buffer_contrib = 15
    /\ \E j \in 1..Len(sheet) :
          /\ sheet[j].credits = 0
          /\ sheet[j].contribution.kind = "num"
          /\ sheet[j].type = "Forest"
          /\ sheet[j].phase = "COP"
    /\ \E j \in 1..Len(sheet) :
          /\ sheet[j].credits > 0
          /\ sheet[j].contribution.kind = "str"

===========================================================================
